---- MODULE Spec2Model ----
(***************************************************************************)
(* Tournament formation and bracket engine (Algoritmo-Torneos).            *)
(*                                                                         *)
(* Part 1: the knockout bracket of one category                            *)
(*   core/fixture_finales_generator.py  GeneradorFixtureFinales            *)
(*   core/models.py                     PartidoFinal, FixtureFinales       *)
(*   api/routes/finales.py              regenerar_fixtures                 *)
(***************************************************************************)
EXTENDS Integers, Sequences, FiniteSets, TLC

\* ------------------------------------------------------------------ bounds
\* Largest number of pools of the category (8 or more pools select the
\* Round-of-16 topology).
MaxGrupos == 8
\* Largest number of successful winner recordings followed in one run of
\* the full state machine (re-recordings included).
MaxRegistros == 4

\* --------------------------------------------------------------- entrants
\* None: an empty slot, no winner (Optional[Pareja] = None).
Nulo == 0

\* The three entrants of the pool at index g (0-based), in the order of
\* grupo.parejas; ids are unique across pools.
ParejasDe(g) == << 3 * g + 1, 3 * g + 2, 3 * g + 3 >>

\* The orders in which a pool's entrants can be ranked: ord[k] is the index
\* in grupo.parejas of the entrant placed k-th.
Ordenes == { o \in [1..3 -> 1..3] : \A i, j \in 1..3 : i # j => o[i] # o[j] }

\* obtener_clasificados_por_posicion, for one position: the entrants placed
\* pos-th, one per pool with complete results, in pool order.
RECURSIVE ClasificadosHasta(_, _, _, _)
ClasificadosHasta(n, pos, comp, ord) ==
    LET
        \* asignar_posiciones: pareja id -> position (1, 2, 3); empty for a pool
        \* whose results are not all complete.
        AsignarPosiciones(g) ==
            IF g \notin comp
            THEN << >>
            ELSE [ id \in { ParejasDe(g)[i] : i \in 1..3 } |->
                     CHOOSE k \in 1..3 : ParejasDe(g)[ord[k]] = id ]
    IN
    IF n = 0
    THEN << >>
    ELSE LET g == n - 1
             posiciones == AsignarPosiciones(g)
             previos == ClasificadosHasta(n - 1, pos, comp, ord)
             delGrupo == SelectSeq(ParejasDe(g),
                             LAMBDA id : /\ id \in DOMAIN posiciones
                                         /\ posiciones[id] = pos)
         IN  IF g \notin comp THEN previos ELSE previos \o delGrupo

ObtenerClasificadosPorPosicion(p, comp, ord) ==
    [ pos \in 1..3 |-> ClasificadosHasta(p, pos, comp, ord) ]

\* ---------------------------------------------------------------- matches

\* f"{pos}° Grupo {chr(65 + grupo_idx)}"
InfoSlot(pos, grupoIdx) ==
    LET
        Letra == << "A", "B", "C", "D", "E", "F", "G", "H", "I", "J" >>
    IN
    ToString(pos) \o "° Grupo " \o Letra[grupoIdx + 1]

\* PartidoFinal(id, fase, numero_partido): both slots empty, no winner.  The
\* id f"{categoria}_{fase}_{n}" is the pair <<fase, n>>.
PartidoFinal(fase, n) ==
    LET
        SinInfo == ""
    IN
    [ id |-> << fase, n >>, fase |-> fase, numero_partido |-> n,
      pareja1 |-> Nulo, pareja2 |-> Nulo, ganador |-> Nulo,
      slot1_info |-> SinInfo, slot2_info |-> SinInfo ]

\* FixtureFinales(categoria): no rounds, no final.
SinFinal == PartidoFinal("ninguna", 0)
FixtureFinales ==
    [ octavos |-> << >>, cuartos |-> << >>, semifinales |-> << >>,
      final |-> SinFinal ]

\* The slot table of _generar_con_cuartos: for each quarterfinal, the
\* (position, pool index) of each slot; <<0, 0>> stands for None.
SlotNulo == << 0, 0 >>

\* A slot table that, for two pools, pairs the 1st and 2nd of the same pool.
SlotsCuartos_SinCruce(numGruposTotal) ==
    IF numGruposTotal = 1 THEN
        << << <<2, 0>>, <<3, 0>> >>, << SlotNulo, SlotNulo >>,
           << SlotNulo, SlotNulo >>, << SlotNulo, SlotNulo >> >>
    ELSE IF numGruposTotal = 2 THEN
        << << <<1, 0>>, <<2, 0>> >>, << <<1, 1>>, <<2, 1>> >>,
           << SlotNulo, SlotNulo >>, << SlotNulo, SlotNulo >> >>
    ELSE IF numGruposTotal = 3 THEN
        << << <<1, 0>>, <<2, 1>> >>, << <<1, 1>>, <<2, 2>> >>,
           << <<1, 2>>, <<2, 0>> >>, << SlotNulo, SlotNulo >> >>
    ELSE
        << << <<1, 0>>, <<2, 2>> >>, << <<1, 3>>, <<2, 1>> >>,
           << <<1, 1>>, <<2, 3>> >>, << <<1, 2>>, <<2, 0>> >> >>

SlotsCuartos(numGruposTotal) ==
    IF numGruposTotal = 1 THEN
        << << <<2, 0>>, <<3, 0>> >>, << SlotNulo, SlotNulo >>,
           << SlotNulo, SlotNulo >>, << SlotNulo, SlotNulo >> >>
    ELSE IF numGruposTotal = 2 THEN
        << << <<1, 0>>, <<2, 1>> >>, << <<1, 1>>, <<2, 0>> >>,
           << SlotNulo, SlotNulo >>, << SlotNulo, SlotNulo >> >>
    ELSE IF numGruposTotal = 3 THEN
        << << <<1, 0>>, <<2, 1>> >>, << <<1, 1>>, <<2, 2>> >>,
           << <<1, 2>>, <<2, 0>> >>, << SlotNulo, SlotNulo >> >>
    ELSE
        << << <<1, 0>>, <<2, 2>> >>, << <<1, 3>>, <<2, 1>> >>,
           << <<1, 1>>, <<2, 3>> >>, << <<1, 2>>, <<2, 0>> >> >>

GenerarConCuartos(clasificados, numGruposTotal) ==
    LET
        \* One quarterfinal of _generar_con_cuartos: an entrant is taken from the
        \* list of its position at index grupo_idx when the list is that long.
        CuartoDe(i, slotConfig) ==
            LET base == PartidoFinal("cuartos", i)
                s1 == slotConfig[1]
                s2 == slotConfig[2]
            IN  IF s1 = SlotNulo
                THEN [ base EXCEPT !.slot1_info = "Vacío", !.slot2_info = "Vacío" ]
                ELSE LET lista1 == clasificados[s1[1]]
                         lista2 == clasificados[s2[1]]
                     IN  [ base EXCEPT
                             !.pareja1 = IF s1[2] < Len(lista1)
                                         THEN lista1[s1[2] + 1] ELSE Nulo,
                             !.slot1_info = InfoSlot(s1[1], s1[2]),
                             !.pareja2 = IF s2[2] < Len(lista2)
                                         THEN lista2[s2[2] + 1] ELSE Nulo,
                             !.slot2_info = InfoSlot(s2[1], s2[2]) ]
    IN
    LET
        \* The semifinals of _generar_con_cuartos: with one pool the first one is
        \* seeded with the pool's 1st place.
        SemiDe(i) ==
            LET base == PartidoFinal("semi", i)
            IN  IF numGruposTotal = 1 /\ i = 1 /\ Len(clasificados[1]) > 0
                THEN [ base EXCEPT !.pareja1 = clasificados[1][1],
                                   !.slot1_info = "1° Grupo A (pasa directo)",
                                   !.slot2_info = "Ganador Cuartos 1" ]
                ELSE base
    IN
    [ octavos |-> << >>,
      cuartos |-> [ i \in 1..4 |->
                      CuartoDe(i, SlotsCuartos(numGruposTotal)[i]) ],
      semifinales |-> [ i \in 1..2 |-> SemiDe(i) ],
      final |-> PartidoFinal("final", 1) ]

\* Mutant of GenerarConOctavos: the second slot is taken from the list of
\* 1st places as well.
GenerarConOctavos_SoloPrimeros(clasificados) ==
    [ octavos |-> [ i \in 1..8 |->
                      [ PartidoFinal("octavos", i) EXCEPT
                          !.pareja1 = IF i - 1 < Len(clasificados[1])
                                      THEN clasificados[1][i] ELSE Nulo,
                          !.pareja2 = IF i - 1 < Len(clasificados[1])
                                      THEN clasificados[1][i] ELSE Nulo ] ],
      cuartos |-> [ i \in 1..4 |-> PartidoFinal("cuartos", i) ],
      semifinales |-> [ i \in 1..2 |-> PartidoFinal("semi", i) ],
      final |-> PartidoFinal("final", 1) ]

GenerarConOctavos(clasificados) ==
    LET
        \* One Round-of-16 match of _generar_con_octavos: i-th 1st place against
        \* i-th 2nd place; no slot description is set.
        OctavoDe(i) ==
            [ PartidoFinal("octavos", i) EXCEPT
                !.pareja1 = IF i - 1 < Len(clasificados[1])
                            THEN clasificados[1][i] ELSE Nulo,
                !.pareja2 = IF i - 1 < Len(clasificados[2])
                            THEN clasificados[2][i] ELSE Nulo ]
    IN
    [ octavos |-> [ i \in 1..8 |-> OctavoDe(i) ],
      cuartos |-> [ i \in 1..4 |-> PartidoFinal("cuartos", i) ],
      semifinales |-> [ i \in 1..2 |-> PartidoFinal("semi", i) ],
      final |-> PartidoFinal("final", 1) ]

\* _generar_solo_semifinales (reached only with an empty list of pools).
GenerarSoloSemifinales(clasificados) ==
    [ octavos |-> << >>, cuartos |-> << >>,
      semifinales |-> [ i \in 1..2 |->
          [ PartidoFinal("semi", i) EXCEPT
              !.pareja1 = IF i - 1 < Len(clasificados[1])
                          THEN clasificados[1][i] ELSE Nulo,
              !.pareja2 = IF i - 1 < Len(clasificados[2])
                          THEN clasificados[2][i] ELSE Nulo ] ],
      final |-> PartidoFinal("final", 1) ]

\* A topology choice that takes the Round-of-16 only from nine pools on.
GenerarFixture_DesdeNueve(p, comp, ord) ==
    IF p = 0
    THEN GenerarSoloSemifinales([ pos \in 1..3 |-> << >> ])
    ELSE CHOOSE f \in { IF p >= 9
                        THEN GenerarConOctavos(clasificados)
                        ELSE GenerarConCuartos(clasificados, p) :
                        clasificados \in
                            { ObtenerClasificadosPorPosicion(p, comp, ord) } } :
             TRUE

\* generar_fixture(categoria, grupos) for p pools of the category, of which
\* the pools in comp have complete results, ranked by ord.
GenerarFixture(p, comp, ord) ==
    IF p = 0
    THEN GenerarSoloSemifinales([ pos \in 1..3 |-> << >> ])
    ELSE \* clasificados is computed once, then the topology is chosen
         CHOOSE f \in { IF p >= 8
                        THEN GenerarConOctavos(clasificados)
                        ELSE GenerarConCuartos(clasificados, p) :
                        clasificados \in
                            { ObtenerClasificadosPorPosicion(p, comp, ord) } } :
             TRUE

\* ------------------------------------------------------- recording winners

BuscarPartido(f, partidoId) ==
    LET
        \* The search of actualizar_ganador_partido: the first round, in the order
        \* octavos, cuartos, semifinales, final, that holds a match with this id,
        \* and the index of the first such match in it; <<"ninguna", 0>> when no
        \* match has the id.
        PrimeroCon(lista) ==
            LET hits == { i \in 1..Len(lista) : lista[i].id = partidoId }
            IN  IF hits = {} THEN 0 ELSE CHOOSE i \in hits : \A j \in hits : i <= j
    IN
    LET enOctavos == PrimeroCon(f.octavos)
        enCuartos == PrimeroCon(f.cuartos)
        enSemis == PrimeroCon(f.semifinales)
    IN  IF enOctavos # 0 THEN << "octavos", enOctavos >>
        ELSE IF enCuartos # 0 THEN << "cuartos", enCuartos >>
        ELSE IF enSemis # 0 THEN << "semi", enSemis >>
        ELSE IF f.final # SinFinal /\ f.final.id = partidoId
             THEN << "final", 1 >>
        ELSE << "ninguna", 0 >>

\* The match at a position found by the search.
PartidoEn(f, donde) ==
    LET
        \* The rounds of a fixture, as the lists actualizar_ganador_partido searches.
        PartidosDe(fase) ==
            IF fase = "octavos" THEN f.octavos
            ELSE IF fase = "cuartos" THEN f.cuartos
            ELSE IF fase = "semi" THEN f.semifinales
            ELSE IF f.final # SinFinal THEN << f.final >> ELSE << >>
    IN
    PartidosDe(donde[1])[donde[2]]

\* Mutant of SlotDelGanador: the comparison with ganador_id is dropped, so
\* any id is taken for the entrant of the first filled slot.
SlotDelGanador_SinComparar(partido, ganadorId) ==
    IF partido.pareja1 # Nulo THEN 1
    ELSE IF partido.pareja2 # Nulo THEN 2
    ELSE 0

\* "Asignar ganador": the slot (1 or 2) whose entrant has ganador_id, 0 when
\* neither slot holds it.
SlotDelGanador(partido, ganadorId) ==
    IF partido.pareja1 # Nulo /\ partido.pareja1 = ganadorId THEN 1
    ELSE IF partido.pareja2 # Nulo /\ partido.pareja2 = ganadorId THEN 2
    ELSE 0

\* Where the winner of match numPartido of a round goes in the next round
\* when the odd/even rule is inverted, and when the winner is appended to
\* the first empty slot instead of replacing its own slot.
SiguienteCon(lista, idx, slot, ganador) ==
    IF slot = 1 THEN [ lista EXCEPT ![idx].pareja1 = ganador ]
                ELSE [ lista EXCEPT ![idx].pareja2 = ganador ]

\* Mutant of PropagarGanador: the index of the next match is taken from the
\* match number without subtracting one.
PropagarGanador_SinRestar(f, partido, fase) ==
    IF partido.ganador = Nulo
    THEN f
    ELSE LET n == partido.numero_partido
             idx == (n \div 2) + 1
             slot == IF n % 2 = 1 THEN 1 ELSE 2
         IN  IF fase = "octavos" /\ idx <= Len(f.cuartos)
             THEN [ f EXCEPT !.cuartos =
                        SiguienteCon(f.cuartos, idx, slot, partido.ganador) ]
             ELSE IF fase = "cuartos" /\ idx <= Len(f.semifinales)
             THEN [ f EXCEPT !.semifinales =
                        SiguienteCon(f.semifinales, idx, slot, partido.ganador) ]
             ELSE IF fase = "semi" /\ f.final # SinFinal
             THEN IF n = 1 THEN [ f EXCEPT !.final.pareja1 = partido.ganador ]
                           ELSE [ f EXCEPT !.final.pareja2 = partido.ganador ]
             ELSE f

\* Mutant of PropagarGanador: odd matches feed slot 2, even matches slot 1.
PropagarGanador_Invertido(f, partido, fase) ==
    IF partido.ganador = Nulo
    THEN f
    ELSE LET n == partido.numero_partido
             idx == ((n - 1) \div 2) + 1
             slot == IF n % 2 = 1 THEN 2 ELSE 1
         IN  IF fase = "octavos" /\ idx <= Len(f.cuartos)
             THEN [ f EXCEPT !.cuartos =
                        SiguienteCon(f.cuartos, idx, slot, partido.ganador) ]
             ELSE IF fase = "cuartos" /\ idx <= Len(f.semifinales)
             THEN [ f EXCEPT !.semifinales =
                        SiguienteCon(f.semifinales, idx, slot, partido.ganador) ]
             ELSE IF fase = "semi" /\ f.final # SinFinal
             THEN IF n = 1 THEN [ f EXCEPT !.final.pareja2 = partido.ganador ]
                           ELSE [ f EXCEPT !.final.pareja1 = partido.ganador ]
             ELSE f

\* Mutant of PropagarGanador: the winner is appended to the first empty
\* slot of the next match (the second when none is empty).
PropagarGanador_Agrega(f, partido, fase) ==
    IF partido.ganador = Nulo
    THEN f
    ELSE LET n == partido.numero_partido
             idx == ((n - 1) \div 2) + 1
         IN  IF fase = "octavos" /\ idx <= Len(f.cuartos)
             THEN [ f EXCEPT !.cuartos =
                        SiguienteCon(f.cuartos, idx,
                            IF f.cuartos[idx].pareja1 = Nulo THEN 1 ELSE 2,
                            partido.ganador) ]
             ELSE IF fase = "cuartos" /\ idx <= Len(f.semifinales)
             THEN [ f EXCEPT !.semifinales =
                        SiguienteCon(f.semifinales, idx,
                            IF f.semifinales[idx].pareja1 = Nulo THEN 1 ELSE 2,
                            partido.ganador) ]
             ELSE IF fase = "semi" /\ f.final # SinFinal
             THEN IF f.final.pareja1 = Nulo
                  THEN [ f EXCEPT !.final.pareja1 = partido.ganador ]
                  ELSE [ f EXCEPT !.final.pareja2 = partido.ganador ]
             ELSE f

\* _propagar_ganador(fixture, partido, fase)
PropagarGanador(f, partido, fase) ==
    IF partido.ganador = Nulo
    THEN f
    ELSE LET numPartido == partido.numero_partido
             ganador == partido.ganador
             idx == (numPartido - 1) \div 2
         IN  IF fase = "octavos" THEN
                 IF idx < Len(f.cuartos)
                 THEN IF numPartido % 2 = 1
                      THEN [ f EXCEPT !.cuartos[idx + 1].pareja1 = ganador ]
                      ELSE [ f EXCEPT !.cuartos[idx + 1].pareja2 = ganador ]
                 ELSE f
             ELSE IF fase = "cuartos" THEN
                 IF idx < Len(f.semifinales)
                 THEN IF numPartido % 2 = 1
                      THEN [ f EXCEPT !.semifinales[idx + 1].pareja1 = ganador ]
                      ELSE [ f EXCEPT !.semifinales[idx + 1].pareja2 = ganador ]
                 ELSE f
             ELSE IF fase = "semi" THEN
                 IF f.final # SinFinal
                 THEN IF numPartido = 1
                      THEN [ f EXCEPT !.final.pareja1 = ganador ]
                      ELSE [ f EXCEPT !.final.pareja2 = ganador ]
                 ELSE f
             ELSE f

\* actualizar_ganador_partido(fixture, partido_id, ganador_id): the value
\* returned and the fixture as the call leaves it.
ActualizarGanadorPartido(f, partidoId, ganadorId) ==
    LET
        \* The fixture with the winner of the match at `donde` set.
        ConGanador(donde, ganador) ==
            IF donde[1] = "octavos" THEN [ f EXCEPT !.octavos[donde[2]].ganador = ganador ]
            ELSE IF donde[1] = "cuartos" THEN [ f EXCEPT !.cuartos[donde[2]].ganador = ganador ]
            ELSE IF donde[1] = "semi" THEN [ f EXCEPT !.semifinales[donde[2]].ganador = ganador ]
            ELSE [ f EXCEPT !.final.ganador = ganador ]
    IN
    LET donde == BuscarPartido(f, partidoId)
    IN  IF donde[1] = "ninguna"
        THEN [ exito |-> FALSE, fixture |-> f ]
        ELSE LET partido == PartidoEn(f, donde)
                 slot == SlotDelGanador(partido, ganadorId)
             IN  IF slot = 0
                 THEN [ exito |-> FALSE, fixture |-> f ]
                 ELSE LET ganador == IF slot = 1 THEN partido.pareja1
                                                 ELSE partido.pareja2
                          f1 == ConGanador(donde, ganador)
                      IN  [ exito |-> TRUE,
                            fixture |-> PropagarGanador(f1, PartidoEn(f1, donde),
                                                        donde[1]) ]

\* ------------------------------------------------------------ the program
VARIABLES
    numGrupos,   \* number of pools of the category
    completos,   \* indices of the pools whose three results are complete
    orden,       \* how each pool ranks its entrants (see Ordenes)
    fixture,     \* the category's bracket, torneo['fixtures_finales'][categoria]
    ultimo,      \* the last operation: its inputs and the value it returned
    registros    \* number of successful winner recordings so far

vars == << numGrupos, completos, orden, fixture, ultimo, registros >>

\* The state of the other parts of the engine.  Each part runs on its own:
\* while one part runs, the others stay in their idle state and every action
\* of the running part leaves their variables unchanged.
\* Part 2, the group-stage calendar.
VARIABLES
    franjasGrupos,    \* franja_horaria of each formed pool, in iteration order
    numCanchas,       \* num_canchas
    canchasOcupadas,  \* _generar_calendario: hours taken on each court
    asignaciones,     \* _generar_calendario: court of each pool handled so far
    canchasPorGrupo,  \* serializar_resultado: court of each pool handled so far
    conCanchas,       \* organizar_partidos is given canchas_por_grupo
    calendario,       \* CalendarioBuilder: the (day, hour, court) grid
    organizados       \* organizar_partidos: number of pools handled so far

varsCal == << franjasGrupos, numCanchas, canchasOcupadas, asignaciones,
              canchasPorGrupo, conCanchas, calendario, organizados >>

CalInactivo ==
    /\ franjasGrupos = << >>
    /\ numCanchas = 1
    /\ canchasOcupadas = << >>
    /\ asignaciones = << >>
    /\ canchasPorGrupo = << >>
    /\ conCanchas = FALSE
    /\ calendario = << >>
    /\ organizados = 0

\* Part 3, the bracket-day calendar.
VARIABLES
    fixturesDia,    \* asignar_horarios: the stored brackets by category label
    partidosDia,    \* the matches to schedule, in scheduling order
    calendarioDia,  \* the calendar under construction
    idxPartido,     \* number of matches handled so far
    idxBloque,      \* idx_bloque
    pasoDia         \* where asignar_horarios is

varsDia == << fixturesDia, partidosDia, calendarioDia, idxPartido, idxBloque,
              pasoDia >>

CalendarioDiaVacio ==
    [ cancha_1 |-> << >>, cancha_2 |-> << >>, sin_asignar |-> << >> ]

DiaInactivo ==
    /\ fixturesDia = << >>
    /\ partidosDia = << >>
    /\ calendarioDia = CalendarioDiaVacio
    /\ idxPartido = 0
    /\ idxBloque = 0
    /\ pasoDia = "inactivo"

\* Part 4, one pool object (Grupo).
VARIABLES
    grupo,          \* the pool: its entrants (parejas) and matches (partidos)
    grupoAsignado,  \* the entrants whose grupo_asignado is this pool's id
    ultimaGrupo     \* the last call made on the pool

varsGrupo == << grupo, grupoAsignado, ultimaGrupo >>

\* Grupo(id, categoria): no entrants, no matches.
GrupoVacio == [ parejas |-> << >>, partidos |-> << >> ]

GrupoInactivo ==
    /\ grupo = GrupoVacio
    /\ grupoAsignado = {}
    /\ ultimaGrupo = "ninguna"

\* Part 5, group formation for one category.
VARIABLES
    disponibles,    \* franjas_disponibles of each entrant, in list order
    iterFranjas,    \* the order in which a set of slot labels is iterated
    formados        \* what the formation returned, once it has run

varsForm == << disponibles, iterFranjas, formados >>

SinFormar == [ hecho |-> FALSE ]

FormInactivo ==
    /\ disponibles = << >>
    /\ iterFranjas = << >>
    /\ formados = SinFormar

\* The manual pool edits (api/routes/parejas.py).
VARIABLES
    gruposEdit,      \* the stored pools of the category: grupo['parejas'] as ids
    sinAsignarEdit,  \* the stored parejas_sin_asignar, as ids
    ediciones        \* how many edits have been saved

varsEdit == << gruposEdit, sinAsignarEdit, ediciones >>

EditInactivo ==
    /\ gruposEdit = << >>
    /\ sinAsignarEdit = << >>
    /\ ediciones = 0

\* The compatibility scorer applied to three entrants in several orders.
VARIABLES
    franjasTrio,        \* franjas_disponibles of the three entrants, as sets
    puntuados    \* the orders scored so far, each with the score and slot

varsScore == << franjasTrio, puntuados >>

ScoreInactivo ==
    /\ franjasTrio = << >>
    /\ puntuados = {}

\* The results of one pool and the standings computed from them.
VARIABLES
    parejasClasif,      \* grupo['parejas'] of the pool, as ids in list order
    resultadosClasif,   \* grupo['resultados']: key << low id, high id >> -> result
    completosClasif,    \* grupo['resultados_completos']
    posicionesClasif,   \* posicion_grupo stored on each entrant (Nulo: none)
    guardados           \* how many results have been saved

varsClasif == << parejasClasif, resultadosClasif, completosClasif,
                 posicionesClasif, guardados >>

ClasifInactivo ==
    /\ parejasClasif = << >>
    /\ resultadosClasif = << >>
    /\ completosClasif = FALSE
    /\ posicionesClasif = << >>
    /\ guardados = 0

\* Part 9, record-winner requests served by separate workers.
VARIABLES
    almacenado,     \* the category's bracket in the stored tournament document
    pedidos,        \* partido_id and ganador_id of each request
    torneoLocal,    \* the bracket in the document each request has loaded
    pasoSolicitud,  \* where each request is in the route
    estadoHttp      \* status of each response (0: not answered yet)

varsSolicitudes == << almacenado, pedidos, torneoLocal, pasoSolicitud, estadoHttp >>

SolicitudesInactivas ==
    /\ almacenado = FixtureFinales
    /\ pedidos = << >>
    /\ torneoLocal = << >>
    /\ pasoSolicitud = << >>
    /\ estadoHttp = << >>

\* Part 10, the earlier bracket generator for three and four pools.
VARIABLES
    gruposLegado,    \* the ranked pools: for each pool, the position of each
                     \* of its three entrants (0 for None)
    fixtureLegado    \* the bracket of the category

varsLegado == << gruposLegado, fixtureLegado >>

\* PartidoFinal(id, fase, pareja1, pareja2, numero_partido) of models.py.
PartidoLegado(id, fase, p1, p2, n) ==
    [ id |-> id, fase |-> fase, pareja1 |-> p1, pareja2 |-> p2,
      ganador |-> Nulo, numero_partido |-> n ]

\* FixtureFinales(categoria): no round; the final is None (fase "ninguna").
FixtureLegadoVacio ==
    [ cuartos |-> << >>, semifinales |-> << >>,
      final |-> PartidoLegado("", "ninguna", Nulo, Nulo, 0) ]

LegadoInactivo ==
    /\ gruposLegado = << >>
    /\ fixtureLegado = FixtureLegadoVacio

\* Part 11, the score of an edited pool.
VARIABLES
    grupoDict,       \* the stored pool: the availabilities of its entrants,
                     \* its slot and its score (half points)
    recalculado      \* recalcular_score_grupo has run on the pool

varsRecalculo == << grupoDict, recalculado >>

RecalculoInactivo ==
    /\ grupoDict = [ parejas |-> << >>, franja_horaria |-> "", score |-> 0 ]
    /\ recalculado = FALSE

Grupos == 0..(numGrupos - 1)

NingunaOp ==
    [ op |-> "ninguna", exito |-> FALSE, partido |-> << "ninguna", 0 >>,
      ganador |-> Nulo, valida |-> FALSE, repite |-> FALSE ]

\* All matches of a fixture.
Partidos(f) ==
    { f.octavos[i] : i \in 1..Len(f.octavos) }
        \cup { f.cuartos[i] : i \in 1..Len(f.cuartos) }
        \cup { f.semifinales[i] : i \in 1..Len(f.semifinales) }
        \cup (IF f.final # SinFinal THEN { f.final } ELSE {})

\* The ranking order used while the bracket is played: the entrant listed
\* second is 1st, the one listed third 2nd, the one listed first 3rd.
OrdenJuego == << 2, 3, 1 >>

\* The category's pools have been formed and played; no bracket is stored
\* yet.
Init ==
    /\ numGrupos \in 1..MaxGrupos
    /\ completos = Grupos
    /\ orden = OrdenJuego
    /\ fixture = FixtureFinales
    /\ ultimo = NingunaOp
    /\ registros = 0
    /\ CalInactivo /\ DiaInactivo /\ GrupoInactivo /\ FormInactivo /\ EditInactivo /\ ScoreInactivo /\ ClasifInactivo /\ SolicitudesInactivas /\ LegadoInactivo /\ RecalculoInactivo

\* obtener_fixtures: the bracket is generated on first access and stored.
Generar ==
    /\ ultimo.op = "ninguna"
    /\ fixture' = GenerarFixture(numGrupos, completos, orden)
    /\ ultimo' = [ NingunaOp EXCEPT !.op = "generar", !.exito = TRUE ]
    /\ UNCHANGED << numGrupos, completos, orden, registros,
                    varsCal, varsDia, varsGrupo, varsForm, varsEdit, varsScore, varsClasif, varsSolicitudes, varsLegado, varsRecalculo >>

\* recordBracketWinner(bracket, matchId, entrantId)
Registrar(partidoId, ganadorId) ==
    LET
        \* The input names a match of the bracket and an entrant held in one of
        \* that match's slots.
        EntradaValida ==
            \E m \in Partidos(fixture) :
                /\ m.id = partidoId
                /\ ganadorId # Nulo
                /\ ganadorId \in { m.pareja1, m.pareja2 }
    IN
    LET r == ActualizarGanadorPartido(fixture, partidoId, ganadorId)
    IN  /\ ultimo.op # "ninguna"
        /\ r.exito => registros < MaxRegistros
        /\ fixture' = r.fixture
        /\ registros' = IF r.exito THEN registros + 1 ELSE registros
        /\ ultimo' =
             [ op |-> "registrar", exito |-> r.exito,
               partido |-> IF r.exito THEN partidoId ELSE << "ninguna", 0 >>,
               ganador |-> IF r.exito THEN ganadorId ELSE Nulo,
               valida |-> EntradaValida,
               repite |-> /\ ultimo.op = "registrar" /\ ultimo.exito
                          /\ ultimo.partido = partidoId
                          /\ ultimo.ganador = ganadorId ]
        /\ UNCHANGED << numGrupos, completos, orden,
                    varsCal, varsDia, varsGrupo, varsForm, varsEdit, varsScore, varsClasif, varsSolicitudes, varsLegado, varsRecalculo >>

\* regenerar_fixtures: the stored bracket is replaced by a newly generated
\* one.
Regenerar ==
    /\ ultimo.op # "ninguna"
    /\ fixture' = GenerarFixture(numGrupos, completos, orden)
    /\ ultimo' = [ NingunaOp EXCEPT !.op = "regenerar", !.exito = TRUE ]
    /\ UNCHANGED << numGrupos, completos, orden, registros,
                    varsCal, varsDia, varsGrupo, varsForm, varsEdit, varsScore, varsClasif, varsSolicitudes, varsLegado, varsRecalculo >>

Next ==
    LET
        \* Inputs of record-winner.  Match ids: the id of every match a bracket can
        \* have and one id no bracket has.
        IdsPartido ==
            { << "octavos", n >> : n \in 1..8 } \cup { << "cuartos", n >> : n \in 1..5 }
                \cup { << "semi", n >> : n \in 1..2 } \cup { << "final", 1 >> }
    IN
    LET
        \* Entrant ids tried for a match id: the entrants in the two slots of the
        \* match of that id and its recorded winner (when there is such a match),
        \* and the first entrant id that is in neither slot.
        IdsGanador(f, partidoId) ==
            LET donde == BuscarPartido(f, partidoId)
                delPartido == IF donde[1] = "ninguna" THEN {}
                              ELSE LET m == PartidoEn(f, donde)
                                   IN  { m.pareja1, m.pareja2, m.ganador } \ { Nulo }
                enSlots == IF donde[1] = "ninguna" THEN {}
                           ELSE LET m == PartidoEn(f, donde)
                                IN  { m.pareja1, m.pareja2 }
                ajeno == IF 1 \notin enSlots THEN 1
                         ELSE IF 2 \notin enSlots THEN 2 ELSE 3
            IN  delPartido \cup { ajeno }
    IN
    \/ Generar
    \/ \E partidoId \in IdsPartido :
           \E ganadorId \in IdsGanador(fixture, partidoId) :
               Registrar(partidoId, ganadorId)
    \/ Regenerar

Spec == Init /\ [][Next]_vars

\* ------------------------------------------------- generation on its own
\* Every combination of complete and incomplete pools, every ranking order:
\* the bracket is generated, and generated again.
InitGen ==
    /\ numGrupos \in 1..MaxGrupos
    /\ completos \in SUBSET Grupos
    /\ orden \in Ordenes
    /\ fixture = FixtureFinales
    /\ ultimo = NingunaOp
    /\ registros = 0
    /\ CalInactivo /\ DiaInactivo /\ GrupoInactivo /\ FormInactivo /\ EditInactivo /\ ScoreInactivo /\ ClasifInactivo /\ SolicitudesInactivas /\ LegadoInactivo /\ RecalculoInactivo

NextGen ==
    \/ Generar
    \/ Regenerar

SpecGen == InitGen /\ [][NextGen]_vars

\* ================================================================ claims
\* Positions of the matches of the stored bracket: <<round, index>>.
Posiciones ==
    { << "octavos", i >> : i \in 1..Len(fixture.octavos) }
        \cup { << "cuartos", i >> : i \in 1..Len(fixture.cuartos) }
        \cup { << "semi", i >> : i \in 1..Len(fixture.semifinales) }
        \cup (IF fixture.final # SinFinal THEN { << "final", 1 >> } ELSE {})

\* The slot the winner of the match at a position feeds, as the spec gives
\* it: <<round, index, slot>>; the Final feeds nothing.
Destino(pos) ==
    IF pos[1] = "octavos"
    THEN << "cuartos", ((pos[2] - 1) \div 2) + 1, IF pos[2] % 2 = 1 THEN 1 ELSE 2 >>
    ELSE IF pos[1] = "cuartos"
    THEN << "semi", ((pos[2] - 1) \div 2) + 1, IF pos[2] % 2 = 1 THEN 1 ELSE 2 >>
    ELSE IF pos[1] = "semi"
    THEN << "final", 1, pos[2] >>
    ELSE << "ninguna", 0, 0 >>

\* The entrant in slot k of the match at a position of fixture f.
EnSlot(f, pos, k) ==
    IF k = 1 THEN PartidoEn(f, pos).pareja1 ELSE PartidoEn(f, pos).pareja2

\* The positions downstream of a position: the match its winner feeds, the
\* match that one feeds, and so on up to the Final.
RECURSIVE Posteriores(_)
Posteriores(pos) ==
    IF Destino(pos)[1] = "ninguna"
    THEN {}
    ELSE LET d == << Destino(pos)[1], Destino(pos)[2] >>
         IN  { d } \cup Posteriores(d)

RegistroExitoso == ultimo.op = "registrar" /\ ultimo.exito

\* C1: every match of the bracket that has a recorded winner has that
\* winner in one of its two slots.
C1_GanadorEnSlot ==
    \A pos \in Posiciones :
        LET m == PartidoEn(fixture, pos)
        IN  m.ganador # Nulo => m.ganador \in { m.pareja1, m.pareja2 }

\* C2: when a match's recorded winner X is replaced by the other entrant Y,
\* the slot the match feeds holds Y afterwards, and X is in no slot and is
\* no recorded winner of any match downstream of it.
C2_ReemplazoConsistente ==
    [][ \A pos \in Posiciones :
          LET x == PartidoEn(fixture, pos).ganador
              y == PartidoEn(fixture', pos).ganador
              d == Destino(pos)
          IN  (/\ ultimo'.op = "registrar" /\ ultimo'.exito
               /\ ultimo'.partido = PartidoEn(fixture, pos).id
               /\ x # Nulo /\ y # Nulo /\ x # y)
              => /\ d[1] # "ninguna"
                    => EnSlot(fixture', << d[1], d[2] >>, d[3]) = y
                 /\ \A post \in Posteriores(pos) :
                        LET m == PartidoEn(fixture', post)
                        IN  x \notin { m.pareja1, m.pareja2, m.ganador }
      ]_vars

\* C3: a successful recording for Round-of-16 match n puts the winner in
\* Quarterfinal (n-1) div 2 (0-based), slot 1 for odd n and slot 2 for even
\* n; Quarterfinals feed the Semifinals by the same rule; Semifinal 1 feeds
\* Final slot 1 and Semifinal 2 Final slot 2; no other slot changes.
C3_Propagacion ==
    [][ (ultimo'.op = "registrar" /\ ultimo'.exito /\ ultimo' # ultimo)
        => LET pos == BuscarPartido(fixture, ultimo'.partido)
               d == Destino(pos)
           IN  /\ d[1] # "ninguna"
                  => EnSlot(fixture', << d[1], d[2] >>, d[3]) = ultimo'.ganador
               /\ \A otra \in Posiciones, k \in 1..2 :
                      << otra[1], otra[2], k >> # d
                      => EnSlot(fixture', otra, k) = EnSlot(fixture, otra, k)
      ]_vars

\* C3 witness: the winner of Round-of-16 match 4 has just been recorded and
\* stands in slot 2 of the second Quarterfinal.
C3_Witness ==
    /\ RegistroExitoso
    /\ ultimo.partido = << "octavos", 4 >>
    /\ fixture.cuartos[2].pareja2 = ultimo.ganador

\* A match is Ready or Decided-from-Ready only with both slots filled.
AmbosSlots(m) == m.pareja1 # Nulo /\ m.pareja2 # Nulo

\* The entrant placed k-th in the pool at index g.
Kesimo(g, k) == ParejasDe(g)[orden[k]]

\* C4: for 1 to 8 pools, all with complete standings, once every match
\* whose two slots both hold entrants has a recorded winner, the Final has
\* both slots filled and a recorded winner.
C4_FinalDecidida ==
    (/\ ultimo.op # "ninguna"
     /\ numGrupos \in 1..8 /\ completos = Grupos
     /\ \A pos \in Posiciones :
            AmbosSlots(PartidoEn(fixture, pos))
            => PartidoEn(fixture, pos).ganador # Nulo)
    => (AmbosSlots(fixture.final) /\ fixture.final.ganador # Nulo)

\* C5: a winner is recorded for a match only while both of its slots hold
\* entrants: no match goes from Pending to Decided in one step.
C5_SoloListos ==
    [][ \A pos \in Posiciones :
          LET antes == PartidoEn(fixture, pos)
              despues == PartidoEn(fixture', pos)
          IN  (/\ ultimo'.op = "registrar"
               /\ Posiciones' = Posiciones
               /\ despues.ganador # Nulo
               /\ despues.ganador # antes.ganador)
              => AmbosSlots(antes)
      ]_vars

\* C6: a recording whose match id is not in the bracket, or whose entrant
\* id is in neither slot of that match, returns failure and changes no slot
\* and no recorded winner of any match.
C6_FalloSinCambio ==
    [][ (ultimo'.op = "registrar" /\ ~ultimo'.valida)
        => (~ultimo'.exito /\ fixture' = fixture) ]_vars

\* C6 witness: after a winner had been recorded, a recording with an invalid
\* input has just failed.
C6_Witness ==
    /\ ultimo.op = "registrar" /\ ~ultimo.valida /\ ~ultimo.exito
    /\ registros > 0
    /\ \E pos \in Posiciones : PartidoEn(fixture, pos).ganador # Nulo

\* C7: recording the same winner for the same match twice in a row leaves
\* the bracket exactly as the first recording left it.
C7_Idempotente ==
    [][ ultimo'.repite => (ultimo'.exito /\ fixture' = fixture) ]_vars

\* C7 witness: the same winner of a Quarterfinal has just been recorded a
\* second time, with its propagated slot in the Semifinal.
C7_Witness ==
    /\ ultimo.repite /\ ultimo.exito
    /\ ultimo.partido[1] = "cuartos"
    /\ registros >= 2

\* C8: regenerating the bracket keeps every recorded winner and every slot
\* already filled.
C8_RegenerarConserva ==
    [][ ultimo'.op = "regenerar"
        => \A pos \in Posiciones :
             LET antes == PartidoEn(fixture, pos)
                 despues == PartidoEn(fixture', pos)
             IN  /\ antes.ganador # Nulo => despues.ganador = antes.ganador
                 /\ antes.pareja1 # Nulo => despues.pareja1 = antes.pareja1
                 /\ antes.pareja2 # Nulo => despues.pareja2 = antes.pareja2
      ]_vars

\* The first-round slots and what each is designated for, <<k, pool>>:
\* Round-of-16 match i is 1st of pool i against 2nd of pool i; the
\* Quarterfinals follow the slot table.
PrimeraRonda == IF numGrupos >= 8 THEN fixture.octavos ELSE fixture.cuartos
Designado(i, k) ==
    IF numGrupos >= 8 THEN << k, i - 1 >> ELSE SlotsCuartos(numGrupos)[i][k]

\* C9: in a generated bracket a first-round slot designated for the k-th
\* place of pool X holds an entrant only if X's standings are complete, and
\* then the entrant ranked k-th in X; a slot with no entrant carries the
\* placeholder description.
C9_SlotsPrimeraRonda ==
    ultimo.op \in { "generar", "regenerar" }
    => \A i \in 1..Len(PrimeraRonda), k \in 1..2 :
         LET des == Designado(i, k)
             m == PrimeraRonda[i]
             e == IF k = 1 THEN m.pareja1 ELSE m.pareja2
             info == IF k = 1 THEN m.slot1_info ELSE m.slot2_info
         IN  des # SlotNulo
             => /\ e # Nulo => (des[2] \in completos /\ e = Kesimo(des[2], des[1]))
                /\ e = Nulo => info = InfoSlot(des[1], des[2])

\* C10: with a single pool with complete standings, Semifinal 1 holds the
\* pool's 1st place, and once the winner of Quarterfinal 1 is recorded it
\* holds both the 1st place and that winner.
C10_SemifinalUnGrupo ==
    (numGrupos = 1 /\ completos = Grupos /\ ultimo.op # "ninguna")
    => LET semi == fixture.semifinales[1]
           cuarto == fixture.cuartos[1]
       IN  /\ Kesimo(0, 1) \in { semi.pareja1, semi.pareja2 }
           /\ cuarto.ganador # Nulo
              => { semi.pareja1, semi.pareja2 } = { Kesimo(0, 1), cuarto.ganador }

(***************************************************************************)
(* Part 2: the group-stage calendar                                        *)
(*   core/algoritmo.py            AlgoritmoGrupos._generar_calendario      *)
(*   api/routes/parejas.py        serializar_resultado                     *)
(*   utils/calendario_builder.py  CalendarioBuilder                        *)
(***************************************************************************)
\* ------------------------------------------------------------------ bounds
\* Largest number of formed pools that are scheduled.
MaxGruposCal == 3
\* Largest court count.
MaxCanchas == 2

\* Round-robin matches of a full pool (Grupo.generar_partidos).
PartidosPorGrupo == 3

\* Slot labels the scheduled pools carry: two slots of one day that share
\* the hour 20:00, a slot of another day, and the label of no table.
FranjasEntrada ==
    LET
        \* A slot label that is in no slot table.
        FranjaAjena == "Domingo 10:00"
    IN
    { "Jueves 18:00", "Jueves 20:00", "Viernes 18:00", FranjaAjena }

\* franjas_a_horas.get(franja, [franja])
HorasDeFranja(franja) ==
    LET
        \* franjas_a_horas of _generar_calendario: slot label -> hour labels.
        FranjasAHoras ==
            ("Jueves 18:00" :> << "Jueves 18:00", "Jueves 19:00", "Jueves 20:00" >>)
         @@ ("Jueves 20:00" :> << "Jueves 20:00", "Jueves 21:00", "Jueves 22:00" >>)
         @@ ("Viernes 18:00" :> << "Viernes 18:00", "Viernes 19:00", "Viernes 20:00" >>)
         @@ ("Viernes 21:00" :> << "Viernes 21:00", "Viernes 22:00", "Viernes 23:00" >>)
         @@ ("Sábado 09:00" :> << "Sábado 09:00", "Sábado 10:00", "Sábado 11:00" >>)
         @@ ("Sábado 12:00" :> << "Sábado 12:00", "Sábado 13:00", "Sábado 14:00" >>)
         @@ ("Sábado 16:00" :> << "Sábado 16:00", "Sábado 17:00", "Sábado 18:00" >>)
         @@ ("Sábado 19:00" :> << "Sábado 19:00", "Sábado 20:00", "Sábado 21:00" >>)
    IN
    IF franja \in DOMAIN FranjasAHoras THEN FranjasAHoras[franja]
    ELSE << franja >>

ConjuntoDe(lista) == { lista[i] : i \in 1..Len(lista) }

\* The court _generar_calendario gives a pool: the first court with none of
\* the pool's hours taken; if there is none, the first court among those
\* with the fewest taken hours.
CanchaPara(ocupadas, horas, n) ==
    LET
        \* any(hora in horas_ocupadas for hora in horas_franja)
        Solapamiento(enUso, cancha, lasHoras) ==
            ConjuntoDe(lasHoras) \cap enUso[cancha] # {}
    IN
    LET
        \* sum(1 for hora in horas_franja if hora in canchas_ocupadas[cancha_num])
        Conflictos(enUso, cancha, lasHoras) ==
            Cardinality({ i \in 1..Len(lasHoras) : lasHoras[i] \in enUso[cancha] })
    IN
    IF \E c \in 1..n : ~Solapamiento(ocupadas, c, horas)
    THEN CHOOSE c \in 1..n :
             /\ ~Solapamiento(ocupadas, c, horas)
             /\ \A d \in 1..(c - 1) : Solapamiento(ocupadas, d, horas)
    ELSE CHOOSE c \in 1..n :
             /\ \A d \in 1..n :
                    Conflictos(ocupadas, c, horas) <= Conflictos(ocupadas, d, horas)
             /\ \A d \in 1..(c - 1) :
                    Conflictos(ocupadas, d, horas) > Conflictos(ocupadas, c, horas)

\* _mapear_franjas_a_horas, in the order of its keys.
MapearFranjasAHoras ==
    << [ clave |-> "Jueves 18:00", dia |-> "Jueves",
         horas |-> << "18:00", "19:00", "20:00" >> ],
       [ clave |-> "Jueves 20:00", dia |-> "Jueves",
         horas |-> << "20:00", "21:00", "22:00" >> ],
       [ clave |-> "Viernes 18:00", dia |-> "Viernes",
         horas |-> << "18:00", "19:00", "20:00" >> ],
       [ clave |-> "Viernes 21:00", dia |-> "Viernes",
         horas |-> << "21:00", "22:00", "23:00" >> ],
       [ clave |-> "Sábado 09:00", dia |-> "Sábado",
         horas |-> << "09:00", "10:00", "11:00" >> ],
       [ clave |-> "Sábado 9:00", dia |-> "Sábado",
         horas |-> << "09:00", "10:00", "11:00" >> ],
       [ clave |-> "Sábado 12:00", dia |-> "Sábado",
         horas |-> << "12:00", "13:00", "14:00" >> ],
       [ clave |-> "Sábado 16:00", dia |-> "Sábado",
         horas |-> << "16:00", "17:00", "18:00" >> ],
       [ clave |-> "Sábado 19:00", dia |-> "Sábado",
         horas |-> << "19:00", "20:00", "21:00" >> ] >>

\* An empty cell (None); a placed match is << pool, number >>.
SinPartido == << 0, 0 >>

ConstruirCalendarioVacio(n) ==
    LET
        \* construir_calendario_vacio: every (day, hour, court) cell holds None.
        \* Courts are numbered from 1 here (list index + 1).
        Celdas(cuantas) ==
            LET
                \* HORARIOS_POR_DIA
                HorariosPorDia ==
                    ("Jueves" :> << "18:00", "19:00", "20:00", "21:00", "22:00" >>)
                 @@ ("Viernes" :> << "18:00", "19:00", "20:00", "21:00", "22:00", "23:00" >>)
                 @@ ("Sábado" :> << "09:00", "10:00", "11:00", "12:00", "13:00", "14:00",
                                    "16:00", "17:00", "18:00", "19:00", "20:00", "21:00" >>)
            IN
            UNION { { << d, HorariosPorDia[d][i], c >> :
                        i \in 1..Len(HorariosPorDia[d]), c \in 1..n } :
                    d \in DOMAIN HorariosPorDia }
    IN
    [ celda \in Celdas(n) |-> SinPartido ]

\* _buscar_cancha_libre: the first court whose cell is empty, or None.
BuscarCanchaLibre(cal, dia, hora, n) ==
    IF \E c \in 1..n : cal[<< dia, hora, c >>] = SinPartido
    THEN CHOOSE c \in 1..n :
             /\ cal[<< dia, hora, c >>] = SinPartido
             /\ \A d \in 1..(c - 1) : cal[<< dia, hora, d >>] # SinPartido
    ELSE Nulo

\* calendario[dia][hora][cancha_idx] = partido
PonerPartido(cal, celda, partido) == [ cal EXCEPT ![celda] = partido ]

\* The loop over grupo.partidos of _asignar_partidos_grupo, from the k-th
\* match on.  A match is << pool, number >>.  A match that gets no court
\* leaves hora_idx where it is and the loop goes on to the next match.
RECURSIVE AsignarPartidos(_, _, _, _, _, _, _)
AsignarPartidos(cal, g, k, horaIdx, entrada, cancha, n) ==
    IF k > PartidosPorGrupo \/ horaIdx > Len(entrada.horas) THEN cal
    ELSE LET hora == entrada.horas[horaIdx]
             c == IF cancha # Nulo THEN cancha
                  ELSE BuscarCanchaLibre(cal, entrada.dia, hora, n)
         IN  IF c # Nulo /\ c <= n
             THEN AsignarPartidos(
                      PonerPartido(cal, << entrada.dia, hora, c >>, << g, k >>),
                      g, k + 1, horaIdx + 1, entrada, cancha, n)
             ELSE AsignarPartidos(cal, g, k + 1, horaIdx, entrada, cancha, n)

\* _asignar_partidos_grupo: the first table entry whose key is in the
\* pool's label gives the day and the hours; no entry, nothing is placed.
AsignarPartidosGrupo(cal, g, franjaGrupo, cancha, n) ==
    LET
        \* `franja_key in franja_grupo`: the key is part of the pool's label.  No
        \* label used here is a proper part of another, so it is the same label.
        ClaveEnFranja(clave, franja) == clave = franja
    IN
    LET tabla == MapearFranjasAHoras
        hay == { i \in 1..Len(tabla) : ClaveEnFranja(tabla[i].clave, franjaGrupo) }
    IN  IF hay = {} THEN cal
        ELSE LET i == CHOOSE x \in hay : \A y \in hay : x <= y
             IN  AsignarPartidos(cal, g, 1, 1, tabla[i], cancha, n)

\* ------------------------------------------------------------ the program
\* The bracket part at rest: no bracket stored, nothing recorded.
FixtureInactivo ==
    /\ numGrupos = 1
    /\ completos = {}
    /\ orden = OrdenJuego
    /\ fixture = FixtureFinales
    /\ ultimo = NingunaOp
    /\ registros = 0

\* Pools have been formed, each with the slot label the scorer gave it.
InitCal ==
    /\ franjasGrupos \in UNION { [1..k -> FranjasEntrada] : k \in 1..MaxGruposCal }
    /\ numCanchas \in 1..MaxCanchas
    /\ canchasOcupadas = [ c \in 1..numCanchas |-> {} ]
    /\ asignaciones = << >>
    /\ canchasPorGrupo = << >>
    /\ conCanchas \in BOOLEAN
    /\ calendario = ConstruirCalendarioVacio(numCanchas)
    /\ organizados = 0
    /\ FixtureInactivo /\ DiaInactivo /\ GrupoInactivo /\ FormInactivo /\ EditInactivo /\ ScoreInactivo /\ ClasifInactivo /\ SolicitudesInactivas /\ LegadoInactivo /\ RecalculoInactivo

\* _generar_calendario, one pass of the loop over grupos_con_info.
AsignarCancha ==
    /\ Len(asignaciones) < Len(franjasGrupos)
    /\ LET horas == HorasDeFranja(franjasGrupos[Len(asignaciones) + 1])
           c == CanchaPara(canchasOcupadas, horas, numCanchas)
       IN  /\ asignaciones' = Append(asignaciones, c)
           /\ canchasOcupadas' =
                [ canchasOcupadas EXCEPT ![c] = @ \cup ConjuntoDe(horas) ]
    /\ UNCHANGED << franjasGrupos, numCanchas, canchasPorGrupo, conCanchas,
                    calendario, organizados,
                    vars, varsDia, varsGrupo, varsForm, varsEdit, varsScore, varsClasif, varsSolicitudes, varsLegado, varsRecalculo >>

\* serializar_resultado, one pass of the loop over the pools.
SerializarGrupo ==
    LET
        \* serializar_resultado: the pools of one slot label take the courts in
        \* turn; anteriores is the number of earlier pools with the same label.
        CanchaSerializada(franjas, i, n) ==
            LET anteriores == Cardinality({ j \in 1..(i - 1) : franjas[j] = franjas[i] })
            IN  (anteriores % n) + 1
    IN
    /\ Len(asignaciones) = Len(franjasGrupos)
    /\ Len(canchasPorGrupo) < Len(franjasGrupos)
    /\ canchasPorGrupo' =
         Append(canchasPorGrupo,
                CanchaSerializada(franjasGrupos, Len(canchasPorGrupo) + 1,
                                  numCanchas))
    /\ UNCHANGED << franjasGrupos, numCanchas, canchasOcupadas, asignaciones,
                    conCanchas, calendario, organizados,
                    vars, varsDia, varsGrupo, varsForm, varsEdit, varsScore, varsClasif, varsSolicitudes, varsLegado, varsRecalculo >>

\* organizar_partidos, one pass of the loop over the pools.
OrganizarGrupo ==
    /\ Len(canchasPorGrupo) = Len(franjasGrupos)
    /\ organizados < Len(franjasGrupos)
    /\ LET g == organizados + 1
           cancha == IF conCanchas THEN canchasPorGrupo[g] ELSE Nulo
       IN  calendario' = AsignarPartidosGrupo(calendario, g, franjasGrupos[g],
                                              cancha, numCanchas)
    /\ organizados' = organizados + 1
    /\ UNCHANGED << franjasGrupos, numCanchas, canchasOcupadas, asignaciones,
                    canchasPorGrupo, conCanchas,
                    vars, varsDia, varsGrupo, varsForm, varsEdit, varsScore, varsClasif, varsSolicitudes, varsLegado, varsRecalculo >>

NextCal ==
    \/ AsignarCancha
    \/ SerializarGrupo
    \/ OrganizarGrupo

SpecCal == InitCal /\ [][NextCal]_varsCal

\* ----------------------------------------------------------------- claims
\* The matches of the pools handled so far whose k-th hour exists: a pool's
\* k-th match takes the k-th hour of the pool's slot.
PartidosConHora(hasta) ==
    { gk \in (1..hasta) \X (1..PartidosPorGrupo) :
        gk[2] <= Len(HorasDeFranja(franjasGrupos[gk[1]])) }

\* The (hour, court) cell of a match, given the court of every pool.
CeldaDe(gk, canchas) ==
    << HorasDeFranja(franjasGrupos[gk[1]])[gk[2]], canchas[gk[1]] >>

SinDobleCelda(canchas) ==
    \A a, b \in PartidosConHora(Len(canchas)) :
        a # b => CeldaDe(a, canchas) # CeldaDe(b, canchas)

\* C11: in the group-stage calendar no two matches occupy the same (day,
\* hour, court) cell, where a pool's k-th match takes the k-th clock-hour of
\* the pool's slot on the pool's court; the pool's court is the one
\* _generar_calendario assigns, and the one serializar_resultado assigns.
C11_SinDobleCelda ==
    /\ SinDobleCelda(asignaciones)
    /\ SinDobleCelda(canchasPorGrupo)

\* C12: once every pool has been handled by organizar_partidos, every
\* round-robin match of every pool is in a cell of the grid (the code keeps
\* no list of unplaced matches, so nothing else can report it); a match
\* that was placed and then replaced by a later pool's match is in no cell.
C12_TodosEnElCalendario ==
    organizados = Len(franjasGrupos) /\ organizados > 0
        => \A g \in 1..Len(franjasGrupos) : \A k \in 1..PartidosPorGrupo :
               \E celda \in DOMAIN calendario : calendario[celda] = << g, k >>

\* The pools handled by organizar_partidos whose slot label is the key of no
\* entry of the static slot table.
OrganizadosSinTabla ==
    { g \in 1..organizados :
        \A i \in 1..Len(MapearFranjasAHoras) :
            MapearFranjasAHoras[i].clave # franjasGrupos[g] }

\* C31: scheduling a pool whose slot label is not in the static slot table
\* yields an explicit failure value, the pool's matches are never silently
\* left off the calendar.  _asignar_partidos_grupo returns nothing on every
\* path and organizar_partidos returns the calendar alone, so the calendar is
\* all a caller has: a pool that was handled has its matches in it.
C31_FranjaDesconocidaNoSeOmite ==
    \A g \in OrganizadosSinTabla :
        \E celda \in DOMAIN calendario : calendario[celda][1] = g

\* How many of the clock-hours of pool i are taken on a court by the pools
\* before it, for courts given pool by pool.
HorasEnConflicto(canchas, i, cancha) ==
    Cardinality(
        { h \in ConjuntoDe(HorasDeFranja(franjasGrupos[i])) :
            \E j \in 1..(i - 1) :
                /\ canchas[j] = cancha
                /\ h \in ConjuntoDe(HorasDeFranja(franjasGrupos[j])) })

\* Courts given pool by pool follow the rule: a pool is on a court with a
\* taken hour only if every court has one, and then on a court with the
\* fewest.
SegunLaRegla(canchas) ==
    \A i \in 1..Len(canchas) :
        HorasEnConflicto(canchas, i, canchas[i]) > 0
            => \A d \in 1..numCanchas :
                   /\ HorasEnConflicto(canchas, i, d) > 0
                   /\ HorasEnConflicto(canchas, i, canchas[i])
                          <= HorasEnConflicto(canchas, i, d)

\* The courts of _generar_calendario follow the rule.
AsignacionesSegunLaRegla == SegunLaRegla(asignaciones)

\* C38: group-stage court assignment places a pool on a court where one of
\* the 3 clock-hours of its slot is already occupied only if every court has
\* at least one such conflicting hour for that pool, and then it picks a
\* court with the fewest conflicting hours.  The courts are those of
\* _generar_calendario and those serializar_resultado stores with the pools.
C38_CanchaConMenosConflictos ==
    /\ SegunLaRegla(asignaciones)
    /\ SegunLaRegla(canchasPorGrupo)

(***************************************************************************)
(* Part 3: the bracket-day calendar                                        *)
(*   utils/calendario_finales_builder.py  GeneradorCalendarioFinales       *)
(*   api/routes/finales.py                obtener_calendario               *)
(***************************************************************************)
\* DURACION_PARTIDO and TIEMPO_CAMBIO, in minutes.
DuracionPartido == 60
TiempoCambio == 10

\* h * 60 + m of a parsed "HH:MM".
Minutos(hora) == hora[1] * 60 + hora[2]

\* Mutant of GenerarBloquesHorarios: no changeover between the blocks.
GenerarBloquesHorarios_SinCambio ==
    LET
        \* The blocks of one court in one window.
        BloquesDe(cancha, ventana) ==
            LET
                \* f"{minutos // 60:02d}:{minutos % 60:02d}"
                FormatoHora(minutos) == << minutos \div 60, minutos % 60 >>
            IN
            LET tiempoDisponible == Minutos(ventana.fin) - Minutos(ventana.inicio)
                tiempoPorPartido == DuracionPartido
                numPartidos == tiempoDisponible \div tiempoPorPartido
            IN  [ i \in 1..numPartidos |->
                    LET minutosInicio == Minutos(ventana.inicio) + (i - 1) * tiempoPorPartido
                    IN  [ inicio |-> FormatoHora(minutosInicio),
                          fin |-> FormatoHora(minutosInicio + DuracionPartido),
                          cancha |-> cancha ] ]
    IN
    LET
        \* A clock time "HH:MM" is << hours, minutes >>.
        \* HORARIOS_DISPONIBLES
        HorariosDisponibles ==
            << [ inicio |-> << 9, 0 >>, fin |-> << 15, 0 >> ],
               [ inicio |-> << 16, 0 >>, fin |-> << 22, 0 >> ] >>
    IN
    BloquesDe(1, HorariosDisponibles[1]) \o BloquesDe(1, HorariosDisponibles[2])
        \o BloquesDe(2, HorariosDisponibles[1])
        \o BloquesDe(2, HorariosDisponibles[2])

\* generar_bloques_horarios: court 1's blocks of both windows, then court 2's.
GenerarBloquesHorarios ==
    LET
        \* The blocks of one court in one window.
        BloquesDe(cancha, ventana) ==
            LET
                \* f"{minutos // 60:02d}:{minutos % 60:02d}"
                FormatoHora(minutos) == << minutos \div 60, minutos % 60 >>
            IN
            LET tiempoDisponible == Minutos(ventana.fin) - Minutos(ventana.inicio)
                tiempoPorPartido == DuracionPartido + TiempoCambio
                numPartidos == tiempoDisponible \div tiempoPorPartido
            IN  [ i \in 1..numPartidos |->
                    LET minutosInicio == Minutos(ventana.inicio) + (i - 1) * tiempoPorPartido
                    IN  [ inicio |-> FormatoHora(minutosInicio),
                          fin |-> FormatoHora(minutosInicio + DuracionPartido),
                          cancha |-> cancha ] ]
    IN
    LET
        \* A clock time "HH:MM" is << hours, minutes >>.
        \* HORARIOS_DISPONIBLES
        HorariosDisponibles ==
            << [ inicio |-> << 9, 0 >>, fin |-> << 15, 0 >> ],
               [ inicio |-> << 16, 0 >>, fin |-> << 22, 0 >> ] >>
    IN
    BloquesDe(1, HorariosDisponibles[1]) \o BloquesDe(1, HorariosDisponibles[2])
        \o BloquesDe(2, HorariosDisponibles[1])
        \o BloquesDe(2, HorariosDisponibles[2])

\* ORDEN_CATEGORIAS and ORDEN_FASES
OrdenCategorias == << "7ma", "6ta", "5ta", "4ta" >>

OrdenFases ==
    ("Octavos de Final" :> 1) @@ ("Cuartos de Final" :> 2)
        @@ ("Semifinal" :> 3) @@ ("Final" :> 4)

\* A stable sort of lista by the integer keys claves (list.sort(key=...)).
OrdenarEstable(lista, claves) ==
    LET n == Len(lista)
        Antes(j) == Cardinality({ k \in 1..n :
                        \/ claves[k] < claves[j]
                        \/ claves[k] = claves[j] /\ k < j })
    IN  [ i \in 1..n |-> lista[CHOOSE j \in 1..n : Antes(j) = i - 1] ]

\* The entry obtener_partidos_para_calendarizar makes for one match.
PartidoDia(categoria, faseNombre, partido, numero) ==
    LET
        \* ORDEN_CATEGORIAS.index(categoria)
        PrioridadCategoria(cat) ==
            (CHOOSE i \in 1..Len(OrdenCategorias) : OrdenCategorias[i] = cat) - 1
    IN
    [ partido_id |-> partido.id, categoria |-> categoria, fase |-> faseNombre,
      numero_partido |-> numero,
      pareja1 |-> partido.pareja1, pareja2 |-> partido.pareja2,
      prioridad_categoria |-> PrioridadCategoria(categoria),
      prioridad_fase |-> OrdenFases[faseNombre] ]

\* The matches of one category: its rounds in order, then its final.
PartidosDeCategoria(fixtures, categoria) ==
    LET
        PartidosDeFase(cat, faseNombre, lista) ==
            [ i \in 1..Len(lista) |->
                PartidoDia(cat, faseNombre, lista[i], lista[i].numero_partido) ]
    IN
    IF categoria \notin DOMAIN fixtures THEN << >>
    ELSE LET f == fixtures[categoria]
         IN  PartidosDeFase(categoria, "Octavos de Final", f.octavos)
                 \o PartidosDeFase(categoria, "Cuartos de Final", f.cuartos)
                 \o PartidosDeFase(categoria, "Semifinal", f.semifinales)
                 \o (IF f.final # SinFinal
                     THEN << PartidoDia(categoria, "Final", f.final, 1) >>
                     ELSE << >>)

RECURSIVE PartidosHasta(_, _)
PartidosHasta(fixtures, n) ==
    IF n = 0 THEN << >>
    ELSE PartidosHasta(fixtures, n - 1)
             \o PartidosDeCategoria(fixtures, OrdenCategorias[n])

\* obtener_partidos_para_calendarizar: the matches of the categories of
\* ORDEN_CATEGORIAS that are in fixtures, sorted by round, then category.
ObtenerPartidosParaCalendarizar(fixtures) ==
    LET partidos == PartidosHasta(fixtures, Len(OrdenCategorias))
    IN  OrdenarEstable(partidos,
            [ i \in 1..Len(partidos) |->
                partidos[i].prioridad_fase * Len(OrdenCategorias)
                    + partidos[i].prioridad_categoria ])

\* PartidoCalendarizado(...).to_dict()
PartidoCalendarizado(partido, bloque) ==
    [ partido_id |-> partido.partido_id, categoria |-> partido.categoria,
      fase |-> partido.fase, numero_partido |-> partido.numero_partido,
      pareja1 |-> partido.pareja1, pareja2 |-> partido.pareja2,
      hora_inicio |-> bloque.inicio, hora_fin |-> bloque.fin,
      cancha |-> bloque.cancha ]

\* calendario[...].sort(key=lambda p: p['hora_inicio'])
OrdenarPorHora(lista) ==
    LET
        \* The order of two "HH:MM" strings of two digits each.
        ClaveHora(hora) == hora[1] * 100 + hora[2]
    IN
    OrdenarEstable(lista, [ i \in 1..Len(lista) |-> ClaveHora(lista[i].hora_inicio) ])

\* ------------------------------------------------------------ the program

\* obtener_calendario is called with brackets stored for some category.
InitDia ==
    LET
        \* torneo['fixtures_finales'] for the pool count of every category (0: the
        \* category has no bracket).
        FixturesDe(grupos) ==
            [ categoria \in { c \in DOMAIN grupos : grupos[c] # 0 } |->
                GenerarFixture(grupos[categoria], 0..(grupos[categoria] - 1), OrdenJuego) ]
    IN
    LET
        \* Pool counts of the categories that have a bracket: one without and one
        \* with a Round-of-16.
        GruposDia == { 2, 8 }
    IN
    LET
        \* Category labels the stored brackets are keyed by: labels of
        \* ORDEN_CATEGORIAS and a label of config CATEGORIAS.
        CategoriasEntrada == { "7ma", "5ta", "4ta", "Cuarta" }
    IN
    /\ fixturesDia \in
         { FixturesDe(grupos) :
             grupos \in { g \in [CategoriasEntrada -> {0} \cup GruposDia] :
                            \E c \in CategoriasEntrada : g[c] # 0 } }
    /\ partidosDia = << >>
    /\ calendarioDia = CalendarioDiaVacio
    /\ idxPartido = 0
    /\ idxBloque = 0
    /\ pasoDia = "inicio"
    /\ FixtureInactivo /\ CalInactivo /\ GrupoInactivo /\ FormInactivo /\ EditInactivo /\ ScoreInactivo /\ ClasifInactivo /\ SolicitudesInactivas /\ LegadoInactivo /\ RecalculoInactivo

\* asignar_horarios up to its loop: the blocks and the sorted matches.
ObtenerPartidos ==
    /\ pasoDia = "inicio"
    /\ partidosDia' = ObtenerPartidosParaCalendarizar(fixturesDia)
    /\ pasoDia' = "asignando"
    /\ UNCHANGED << fixturesDia, calendarioDia, idxPartido, idxBloque,
                    vars, varsCal, varsGrupo, varsForm, varsEdit, varsScore, varsClasif, varsSolicitudes, varsLegado, varsRecalculo >>

\* asignar_horarios, one pass of the loop over partidos.
AsignarBloque ==
    /\ pasoDia = "asignando"
    /\ idxPartido < Len(partidosDia)
    /\ LET partido == partidosDia[idxPartido + 1]
           bloques == GenerarBloquesHorarios
       IN  IF idxBloque >= Len(bloques)
           THEN /\ calendarioDia' =
                     [ calendarioDia EXCEPT !.sin_asignar = Append(@, partido) ]
                /\ idxBloque' = idxBloque
           ELSE LET bloque == bloques[idxBloque + 1]
                    entrada == PartidoCalendarizado(partido, bloque)
                IN  /\ calendarioDia' =
                         IF bloque.cancha = 1
                         THEN [ calendarioDia EXCEPT !.cancha_1 = Append(@, entrada) ]
                         ELSE [ calendarioDia EXCEPT !.cancha_2 = Append(@, entrada) ]
                    /\ idxBloque' = idxBloque + 1
    /\ idxPartido' = idxPartido + 1
    /\ UNCHANGED << fixturesDia, partidosDia, pasoDia,
                    vars, varsCal, varsGrupo, varsForm, varsEdit, varsScore, varsClasif, varsSolicitudes, varsLegado, varsRecalculo >>

\* asignar_horarios after its loop: each court's list sorted by start.
OrdenarCanchas ==
    /\ pasoDia = "asignando"
    /\ idxPartido = Len(partidosDia)
    /\ calendarioDia' =
         [ calendarioDia EXCEPT !.cancha_1 = OrdenarPorHora(@),
                                !.cancha_2 = OrdenarPorHora(@) ]
    /\ pasoDia' = "fin"
    /\ UNCHANGED << fixturesDia, partidosDia, idxPartido, idxBloque,
                    vars, varsCal, varsGrupo, varsForm, varsEdit, varsScore, varsClasif, varsSolicitudes, varsLegado, varsRecalculo >>

NextDia ==
    \/ ObtenerPartidos
    \/ AsignarBloque
    \/ OrdenarCanchas

SpecDia == InitDia /\ [][NextDia]_varsDia

\* ----------------------------------------------------------------- claims
\* The entries of the returned calendar.
Calendarizados == calendarioDia.cancha_1 \o calendarioDia.cancha_2

EntradasDia == Calendarizados \o calendarioDia.sin_asignar

\* C13: in the calendar asignar_horarios returns, every bracket match of
\* every category of the stored brackets appears exactly once, in one
\* court's schedule or in the unscheduled list.
C13_CadaPartidoUnaVez ==
    pasoDia = "fin"
        => \A categoria \in DOMAIN fixturesDia :
               \A m \in Partidos(fixturesDia[categoria]) :
                   Cardinality({ i \in 1..Len(EntradasDia) :
                       /\ EntradasDia[i].categoria = categoria
                       /\ EntradasDia[i].partido_id = m.id }) = 1

\* C14: every scheduled match of an earlier round starts no later than
\* every scheduled match of a later round, across categories and courts.
C14_RondasEnOrden ==
    pasoDia = "fin"
        => \A i, j \in 1..Len(Calendarizados) :
               OrdenFases[Calendarizados[i].fase] < OrdenFases[Calendarizados[j].fase]
                   => Minutos(Calendarizados[i].hora_inicio)
                          <= Minutos(Calendarizados[j].hora_inicio)

\* The windows of the bracket day, 09:00 to 15:00 and 16:00 to 22:00.
VentanasDia ==
    { [ inicio |-> << 9, 0 >>, fin |-> << 15, 0 >> ],
      [ inicio |-> << 16, 0 >>, fin |-> << 22, 0 >> ] }

\* The blocks of a court that start in a window, in the order generated.
BloquesEn(cancha, ventana) ==
    SelectSeq(GenerarBloquesHorarios,
              LAMBDA b : /\ b.cancha = cancha
                         /\ Minutos(b.inicio) >= Minutos(ventana.inicio)
                         /\ Minutos(b.inicio) < Minutos(ventana.fin))

\* C40: bracket-day time blocks: on each of the 2 courts, each window (09:00
\* to 15:00 and 16:00 to 22:00) yields 5 blocks of 60 minutes whose starts
\* are 70 minutes apart, every block ends within its window, and no block
\* receives more than one match (every scheduled match has a block's court
\* and times, and no two scheduled matches have the same court and start).
C40_BloquesDelDia ==
    /\ \A cancha \in { 1, 2 } :
           \A ventana \in VentanasDia :
               LET bs == BloquesEn(cancha, ventana)
               IN  /\ Len(bs) = 5
                   /\ Minutos(bs[1].inicio) = Minutos(ventana.inicio)
                   /\ \A i \in 1..Len(bs) :
                          /\ Minutos(bs[i].fin) - Minutos(bs[i].inicio) = 60
                          /\ Minutos(bs[i].fin) <= Minutos(ventana.fin)
                          /\ i > 1 => Minutos(bs[i].inicio)
                                          - Minutos(bs[i - 1].inicio) = 70
    /\ Len(GenerarBloquesHorarios) = 2 * Cardinality(VentanasDia) * 5
    /\ \A i \in 1..Len(Calendarizados) :
           /\ \E b \in ConjuntoDe(GenerarBloquesHorarios) :
                  /\ b.cancha = Calendarizados[i].cancha
                  /\ b.inicio = Calendarizados[i].hora_inicio
                  /\ b.fin = Calendarizados[i].hora_fin
           /\ \A j \in 1..Len(Calendarizados) :
                  (/\ Calendarizados[i].cancha = Calendarizados[j].cancha
                   /\ Calendarizados[i].hora_inicio = Calendarizados[j].hora_inicio)
                      => i = j

\* Every block of both courts has a match and some matches found none.
C40_Witness ==
    /\ pasoDia = "fin"
    /\ Len(calendarioDia.cancha_1) = 10
    /\ Len(calendarioDia.cancha_2) = 10
    /\ Len(calendarioDia.sin_asignar) > 0

(***************************************************************************)
(* Part 4: one pool object                                                 *)
(*   core/models.py     Grupo.agregar_pareja, Grupo.generar_partidos       *)
(***************************************************************************)
\* Number of entrants that can be offered to the pool.
MaxParejasGrupo == 4

\* Grupo.esta_completo: len(self.parejas) == 3.
TamanoGrupo == 3

\* Mutant of AgregarPareja: the pool takes the entrant whatever its size.
AgregarPareja_SinLimite(g, pareja) ==
    [ g EXCEPT !.parejas = Append(@, pareja) ]

\* Grupo.agregar_pareja: the entrant is appended while the pool has fewer
\* than 3.
AgregarPareja(g, pareja) ==
    IF Len(g.parejas) < TamanoGrupo
    THEN [ g EXCEPT !.parejas = Append(@, pareja) ]
    ELSE g

\* Grupo.generar_partidos: a complete pool gets the three pairings.
GenerarPartidos(g) ==
    LET
        EstaCompleto(gr) == Len(gr.parejas) = TamanoGrupo
    IN
    IF EstaCompleto(g)
    THEN [ g EXCEPT !.partidos = << << g.parejas[1], g.parejas[2] >>,
                                    << g.parejas[1], g.parejas[3] >>,
                                    << g.parejas[2], g.parejas[3] >> >> ]
    ELSE g

\* ------------------------------------------------------------ the program
InitGrupo ==
    /\ grupo = GrupoVacio
    /\ grupoAsignado = {}
    /\ ultimaGrupo = "ninguna"
    /\ FixtureInactivo /\ CalInactivo /\ DiaInactivo /\ FormInactivo /\ EditInactivo /\ ScoreInactivo /\ ClasifInactivo /\ SolicitudesInactivas /\ LegadoInactivo /\ RecalculoInactivo

\* grupo.agregar_pareja(pareja)
Agregar(pareja) ==
    /\ grupo' = AgregarPareja(grupo, pareja)
    /\ grupoAsignado' = IF Len(grupo.parejas) < TamanoGrupo
                        THEN grupoAsignado \cup { pareja }
                        ELSE grupoAsignado
    /\ ultimaGrupo' = "agregar"
    /\ UNCHANGED << vars, varsCal, varsDia, varsForm, varsEdit, varsScore, varsClasif, varsSolicitudes, varsLegado, varsRecalculo >>

\* grupo.generar_partidos()
GenerarPartidosGrupo ==
    /\ grupo' = GenerarPartidos(grupo)
    /\ ultimaGrupo' = "generar"
    /\ UNCHANGED << grupoAsignado,
                    vars, varsCal, varsDia, varsForm, varsEdit, varsScore, varsClasif, varsSolicitudes, varsLegado, varsRecalculo >>

NextGrupo ==
    \/ \E pareja \in 1..MaxParejasGrupo : Agregar(pareja)
    \/ GenerarPartidosGrupo

SpecGrupo == InitGrupo /\ [][NextGrupo]_varsGrupo

\* ----------------------------------------------------------------- claims
\* The three pairings entrant 0 vs 1, 0 vs 2, 1 vs 2 (0-based) of the pool.
TresCruces(g) ==
    << << g.parejas[1], g.parejas[2] >>, << g.parejas[1], g.parejas[3] >>,
       << g.parejas[2], g.parejas[3] >> >>

\* C17 as stated: after any sequence of add-entrant and generate-matches
\* calls the pool holds at most 3 entrants, and it has round-robin matches
\* if and only if it holds exactly 3 entrants (then exactly the pairings).
C17_PartidosSiiCompleto ==
    /\ Len(grupo.parejas) <= 3
    /\ grupo.partidos # << >> <=> Len(grupo.parejas) = 3
    /\ grupo.partidos # << >> => grupo.partidos = TresCruces(grupo)

\* C17 amended: the pool holds at most 3 entrants; a pool that has matches
\* holds exactly 3 entrants and has exactly the three pairings; and right
\* after a generate-matches call the pool has matches if and only if it
\* holds exactly 3 entrants.
C17_PartidosSoloCompleto ==
    /\ Len(grupo.parejas) <= 3
    /\ grupo.partidos # << >>
           => Len(grupo.parejas) = 3 /\ grupo.partidos = TresCruces(grupo)
    /\ ultimaGrupo = "generar"
           => (grupo.partidos # << >> <=> Len(grupo.parejas) = 3)

\* A fourth entrant was offered to a full pool with matches.
C17_Witness ==
    /\ Len(grupo.parejas) = 3
    /\ grupo.partidos = TresCruces(grupo)
    /\ ultimaGrupo = "agregar"

(***************************************************************************)
(* Part 5: group formation for one category                                *)
(*   core/algoritmo.py   AlgoritmoGrupos._formar_grupos_categoria,         *)
(*                       _buscar_distribucion_optima,                      *)
(*                       _calcular_compatibilidad, _crear_grupo            *)
(* Entrants are numbered 1..n in the order of the input list; a score is   *)
(* counted in half points (3.0 is 6, 0.5 is 1).                            *)
(***************************************************************************)
\* franja.split(' ')[0]: the day of a slot label.
DiaDeFranja ==
    ("Jueves 18:00" :> "Jueves") @@ ("Jueves 20:00" :> "Jueves")
 @@ ("Viernes 18:00" :> "Viernes") @@ ("Viernes 21:00" :> "Viernes")
 @@ ("Sábado 09:00" :> "Sábado") @@ ("Sábado 12:00" :> "Sábado")
 @@ ("Sábado 16:00" :> "Sábado") @@ ("Sábado 19:00" :> "Sábado")

\* No slot (None).
SinFranja == ""

\* 3.0, 1.0 and 0.5 in half points.
ScorePerfecto == 6
ScoreExacto == 2
ScoreMismoDia == 1

\* Mutant of ScoreFranja: a slot on the same day at another hour adds
\* nothing.
ScoreFranja_SinMismoDia(candidata, franjas) ==
    LET Aporte(i) == IF candidata \in franjas[i] THEN ScoreExacto ELSE 0
    IN  Aporte(1) + Aporte(2) + Aporte(3)

\* The score of one candidate slot for three availability sets.
ScoreFranja(candidata, franjas) ==
    LET Aporte(i) ==
            IF candidata \in franjas[i] THEN ScoreExacto
            ELSE IF DiaDeFranja[candidata]
                        \in { DiaDeFranja[f] : f \in franjas[i] }
                 THEN ScoreMismoDia ELSE 0
    IN  Aporte(1) + Aporte(2) + Aporte(3)

\* _calcular_compatibilidad for the availability sets of three entrants:
\* a common slot gives 3.0; otherwise the candidate of the union with the
\* highest score, the first such in iteration order.
CalcularCompatibilidad(franjas, iter) ==
    LET
        \* The first label of a set in iteration order (list(conjunto)[0]).
        PrimeraFranja(conjunto, iteracion) ==
            iteracion[CHOOSE i \in 1..Len(iteracion) :
                     /\ iteracion[i] \in conjunto
                     /\ \A j \in 1..(i - 1) : iteracion[j] \notin conjunto]
    IN
    LET comunes == franjas[1] \cap franjas[2] \cap franjas[3]
        todas == franjas[1] \cup franjas[2] \cup franjas[3]
    IN  IF comunes # {}
        THEN [ score |-> ScorePerfecto, franja |-> PrimeraFranja(comunes, iter) ]
        ELSE IF todas = {}
        THEN [ score |-> 0, franja |-> SinFranja ]
        ELSE LET mejor == CHOOSE c \in todas :
                              \A d \in todas :
                                  ScoreFranja(c, franjas) >= ScoreFranja(d, franjas)
                 mejorScore == ScoreFranja(mejor, franjas)
             IN  [ score |-> mejorScore,
                   franja |-> PrimeraFranja(
                       { c \in todas : ScoreFranja(c, franjas) = mejorScore },
                       iter) ]

\* The scorer applied to three entrants.
Compatibilidad(trio, disp, iter) ==
    CalcularCompatibilidad(<< disp[trio[1]], disp[trio[2]], disp[trio[3]] >>, iter)

\* itertools.combinations(lista, 3): the triples of positions i < j < k in
\* lexicographic order.  TernasIJ are those that start with i, j.
TernasIJ(i, j, n) == [ k \in 1..(n - j) |-> << i, j, j + k >> ]

RECURSIVE TernasI(_, _, _)
TernasI(i, j, n) ==
    IF j >= n THEN << >> ELSE TernasIJ(i, j, n) \o TernasI(i, j + 1, n)

RECURSIVE TernasDesde(_, _)
TernasDesde(i, n) ==
    IF i > n - 2 THEN << >> ELSE TernasI(i, i + 1, n) \o TernasDesde(i + 1, n)

Combinaciones(lista) ==
    LET ternas == TernasDesde(1, Len(lista))
    IN  [ r \in 1..Len(ternas) |->
            << lista[ternas[r][1]], lista[ternas[r][2]], lista[ternas[r][3]] >> ]

\* _crear_grupo: the next pool id, the three entrants added (each one's
\* grupo_asignado set to the pool's id), the matches generated.
CrearGrupo(contador, trio, franja, score) ==
    LET g == GenerarPartidos(
                 AgregarPareja(AgregarPareja(AgregarPareja(GrupoVacio, trio[1]),
                                             trio[2]), trio[3]))
    IN  [ id |-> contador + 1, parejas |-> g.parejas, partidos |-> g.partidos,
          franja_horaria |-> franja, score_compatibilidad |-> score ]

\* The candidate pools of a list of entrants: every combination with its
\* score and slot, in the order of itertools.combinations.
Candidatos(lista, disp, iter) ==
    LET combos == Combinaciones(lista)
    IN  [ r \in 1..Len(combos) |->
            LET c == Compatibilidad(combos[r], disp, iter)
            IN  [ score |-> c.score, franja |-> c.franja, combo |-> combos[r] ] ]

\* The candidates with a score above 0, sorted by score, highest first;
\* candidates of equal score keep their order (list.sort is stable).
CandidatosOrdenados(lista, disp, iter) ==
    CHOOSE r \in
        { LET De(s) == SelectSeq(todos, LAMBDA c : c.score = s)
          IN  De(6) \o De(5) \o De(4) \o De(3) \o De(2) \o De(1) :
          todos \in { SelectSeq(Candidatos(lista, disp, iter),
                                LAMBDA c : c.score > 0) } } : TRUE

\* What the search has found so far (mejor_score_total, mejor_grupos,
\* mejor_sin_asignar), with contador_grupos and every entrant's
\* grupo_asignado, which _crear_grupo changes for every pool it tries.
ContextoInicial(n) ==
    [ mejorScore |-> -2, hay |-> FALSE, mejorGrupos |-> << >>,
      mejorSinAsignar |-> << >>, contador |-> 0,
      asignado |-> [ p \in 1..n |-> Nulo ] ]

\* Mutant of RegistrarMejor: only the first configuration reached is kept.
RegistrarMejor_Primera(ctx, actuales, restantes, acumulado) ==
    IF ~ctx.hay
    THEN [ ctx EXCEPT !.mejorScore = acumulado, !.hay = TRUE,
                      !.mejorGrupos = actuales, !.mejorSinAsignar = restantes ]
    ELSE ctx

\* if score_acumulado > mejor_score_total: keep this configuration.
RegistrarMejor(ctx, actuales, restantes, acumulado) ==
    IF acumulado > ctx.mejorScore
    THEN [ ctx EXCEPT !.mejorScore = acumulado, !.hay = TRUE,
                      !.mejorGrupos = actuales, !.mejorSinAsignar = restantes ]
    ELSE ctx

\* Mutant of MaxCombos: only the best candidate is explored.
MaxCombos_Uno(numRestantes, numCandidatos) ==
    IF numCandidatos < 1 THEN numCandidatos ELSE 1

\* How many of the sorted candidates are explored.
MaxCombos(numRestantes, numCandidatos) ==
    IF numRestantes <= 9 THEN numCandidatos
    ELSE IF numRestantes <= 12
         THEN (IF numCandidatos < 20 THEN numCandidatos ELSE 20)
         ELSE (IF numCandidatos < 15 THEN numCandidatos ELSE 15)

\* The context after _crear_grupo made the pool g.
ConGrupoCreado(ctx, g) ==
    [ ctx EXCEPT !.contador = g.id,
                 !.asignado = [ p \in DOMAIN @ |->
                                  IF p \in ConjuntoDe(g.parejas) THEN g.id
                                  ELSE @[p] ] ]

\* backtrack(parejas_restantes, grupos_actuales, score_acumulado,
\* grupos_formados) and its loop over the sorted candidates lista[lo..hi],
\* taken in order.  env holds disp, iter and num_grupos_max.
RECURSIVE Backtrack(_, _, _, _, _, _)
RECURSIVE Explorar(_, _, _, _, _, _, _, _, _)
Backtrack(ctx, env, restantes, actuales, acumulado, gruposFormados) ==
    IF Len(restantes) < 3 \/ gruposFormados >= env.max
    THEN RegistrarMejor(ctx, actuales, restantes, acumulado)
    ELSE IF acumulado + (Len(restantes) \div 3) * ScorePerfecto <= ctx.mejorScore
    THEN ctx
    ELSE CHOOSE r \in
             { Explorar(ctx, env, cands, 1, MaxCombos(Len(restantes), Len(cands)),
                        restantes, actuales, acumulado, gruposFormados) :
               cands \in { CandidatosOrdenados(restantes, env.disp, env.iter) } } :
             TRUE

Explorar(ctx, env, lista, lo, hi, restantes, actuales, acumulado, gruposFormados) ==
    IF lo > hi THEN ctx
    ELSE IF lo = hi
    THEN LET c == lista[lo]
             g == CrearGrupo(ctx.contador, c.combo, c.franja, c.score)
             nuevas == SelectSeq(restantes, LAMBDA p : p \notin ConjuntoDe(c.combo))
         IN  Backtrack(ConGrupoCreado(ctx, g), env, nuevas, Append(actuales, g),
                       acumulado + c.score, gruposFormados + 1)
    ELSE CHOOSE r \in
             { Explorar(ctx2, env, lista, ((lo + hi) \div 2) + 1, hi, restantes,
                        actuales, acumulado, gruposFormados) :
               ctx2 \in
                 { Explorar(ctx, env, lista, lo, (lo + hi) \div 2, restantes,
                            actuales, acumulado, gruposFormados) } } : TRUE

\* _buscar_distribucion_optima: the context after the search; hay is FALSE
\* when it returns None.
BuscarDistribucionOptima(ctx, parejas, disp, iter) ==
    Backtrack(ctx, [ disp |-> disp, iter |-> iter, max |-> Len(parejas) \div 3 ],
              parejas, << >>, 0, 0)

\* Mutant of MejorCandidato: the first triple, whatever its score.
MejorCandidato_Primero(cands) == cands[1]

\* The first candidate with the highest score (score > mejor_score keeps
\* the first of equal candidates).
MejorCandidato(cands) ==
    cands[CHOOSE i \in 1..Len(cands) :
              /\ \A j \in 1..Len(cands) : cands[i].score >= cands[j].score
              /\ \A j \in 1..(i - 1) : cands[j].score < cands[i].score]

\* The greedy loop of _formar_grupos_categoria over parejas_disponibles
\* (a set of entrants, iterated in ascending id order): the best triple
\* becomes a pool while its score is above 0.
RECURSIVE Greedy(_, _, _, _, _)
Greedy(ctx, disponiblesAhora, grupos, disp, iter) ==
    IF Len(disponiblesAhora) < 3
    THEN [ ctx |-> ctx, grupos |-> grupos, sinAsignar |-> disponiblesAhora ]
    ELSE CHOOSE r \in
             { IF mejor.score > 0
               THEN LET g == CrearGrupo(ctx.contador, mejor.combo, mejor.franja,
                                        mejor.score)
                    IN  Greedy(ConGrupoCreado(ctx, g),
                               SelectSeq(disponiblesAhora,
                                   LAMBDA p : p \notin ConjuntoDe(mejor.combo)),
                               Append(grupos, g), disp, iter)
               ELSE [ ctx |-> ctx, grupos |-> grupos,
                      sinAsignar |-> disponiblesAhora ] :
               mejor \in { MejorCandidato(Candidatos(disponiblesAhora, disp, iter)) } } :
             TRUE

\* Mutant of Formado: the leftover entrants are dropped.
Formado_SinSobrantes(camino, grupos, sinAsignar, ctx) ==
    [ hecho |-> TRUE, camino |-> camino, grupos |-> grupos,
      sinAsignar |-> << >>, asignado |-> ctx.asignado ]

\* What a formation returns: the pools, the leftover entrants, the path
\* that produced them, and every entrant's grupo_asignado afterwards.
Formado(camino, grupos, sinAsignar, ctx) ==
    [ hecho |-> TRUE, camino |-> camino, grupos |-> grupos,
      sinAsignar |-> sinAsignar, asignado |-> ctx.asignado ]

\* _formar_grupos_categoria for the entrants 1..n.
FormarGruposCategoria(n, disp, iter) ==
    LET parejas == [ p \in 1..n |-> p ]
    IN  IF n < 3 THEN Formado("pocas", << >>, parejas, ContextoInicial(n))
        ELSE CHOOSE r \in
                 { IF ctx.hay
                   THEN Formado("optimo", ctx.mejorGrupos, ctx.mejorSinAsignar, ctx)
                   ELSE LET g == Greedy(ctx, parejas, << >>, disp, iter)
                        IN  Formado("greedy", g.grupos, g.sinAsignar, g.ctx) :
                   ctx \in
                     { IF 2 <= n \div 3 /\ n \div 3 <= 6
                       THEN BuscarDistribucionOptima(ContextoInicial(n), parejas,
                                                     disp, iter)
                       ELSE ContextoInicial(n) } } : TRUE

\* ------------------------------------------------------------ the program
\* Largest number of entrants of the category.
MaxParejas == 6

\* The entrants of one category have been read.
InitForm ==
    LET
        \* Iteration orders of a set of slot labels.
        IteracionesFranjas ==
            { << "Jueves 18:00", "Jueves 20:00" >>,
              << "Jueves 20:00", "Jueves 18:00" >> }
    IN
    LET
        \* The availabilities an entrant can have: none, one slot, another slot of
        \* the same day, or both.
        Disponibilidades ==
            { {}, { "Jueves 18:00" }, { "Jueves 20:00" },
              { "Jueves 18:00", "Jueves 20:00" } }
    IN
    /\ disponibles \in UNION { [1..n -> Disponibilidades] : n \in 2..MaxParejas }
    /\ iterFranjas \in IteracionesFranjas
    /\ formados = SinFormar
    /\ FixtureInactivo /\ CalInactivo /\ DiaInactivo /\ GrupoInactivo /\ EditInactivo /\ ScoreInactivo /\ ClasifInactivo /\ SolicitudesInactivas /\ LegadoInactivo /\ RecalculoInactivo

\* formGroups(entrants)
Formar ==
    /\ ~formados.hecho
    /\ formados' = FormarGruposCategoria(Len(disponibles), disponibles, iterFranjas)
    /\ UNCHANGED << disponibles, iterFranjas,
                    vars, varsCal, varsDia, varsGrupo, varsEdit, varsScore, varsClasif, varsSolicitudes, varsLegado, varsRecalculo >>

\* The greedy loop run on the entrants.
FormarPorGreedy ==
    LET
        \* The greedy path on its own, for the entrants 1..n.
        FormarGreedy(n, disp, iter) ==
            LET r == Greedy(ContextoInicial(n), [ p \in 1..n |-> p ], << >>, disp, iter)
            IN  Formado("solo greedy", r.grupos, r.sinAsignar, r.ctx)
    IN
    /\ ~formados.hecho
    /\ Len(disponibles) >= 3
    /\ formados' = FormarGreedy(Len(disponibles), disponibles, iterFranjas)
    /\ UNCHANGED << disponibles, iterFranjas,
                    vars, varsCal, varsDia, varsGrupo, varsEdit, varsScore, varsClasif, varsSolicitudes, varsLegado, varsRecalculo >>

NextForm ==
    \/ Formar
    \/ FormarPorGreedy

SpecForm == InitForm /\ [][NextForm]_varsForm

\* ------------------------------------------- nine entrants, three slots
\* Nine entrants make three pools.
NueveParejas == 3 * TamanoGrupo

\* Largest number of entrants that list every slot.
MaxFlexibles == 1

FranjasNueve == { "Jueves 18:00", "Jueves 20:00", "Viernes 18:00" }

\* Nine entrants have been read: three per slot, and up to MaxFlexibles of
\* them list every slot.
InitNueve ==
    LET
        \* Each slot is the only slot of three of the nine entrants, in any order
        \* of the entrants after the first.
        Repartos ==
            { casa \in [1..NueveParejas -> FranjasNueve] :
                  /\ casa[1] = "Jueves 18:00"
                  /\ \A f \in FranjasNueve :
                         Cardinality({ p \in 1..NueveParejas : casa[p] = f }) = TamanoGrupo }
    IN
    LET
        IteracionNueve == << "Jueves 18:00", "Jueves 20:00", "Viernes 18:00" >>
    IN
    /\ \E casa \in Repartos :
         \E flexibles \in { F \in SUBSET (1..NueveParejas) :
                                Cardinality(F) <= MaxFlexibles } :
             disponibles = [ p \in 1..NueveParejas |->
                               IF p \in flexibles THEN FranjasNueve
                               ELSE { casa[p] } ]
    /\ iterFranjas = IteracionNueve
    /\ formados = SinFormar
    /\ FixtureInactivo /\ CalInactivo /\ DiaInactivo /\ GrupoInactivo /\ EditInactivo /\ ScoreInactivo /\ ClasifInactivo /\ SolicitudesInactivas /\ LegadoInactivo /\ RecalculoInactivo

NextNueve == Formar

SpecNueve == InitNueve /\ [][NextNueve]_varsForm

\* ------------------------------------------------------------- claims
\* How many times the entrant p appears in the pools and in the leftover.
AparicionesEnGrupos(f, p) ==
    Cardinality({ << g, i >> \in (1..Len(f.grupos)) \X (1..TamanoGrupo) :
                      i <= Len(f.grupos[g].parejas) /\ f.grupos[g].parejas[i] = p })

AparicionesEnSobrantes(f, p) ==
    Cardinality({ i \in 1..Len(f.sinAsignar) : f.sinAsignar[i] = p })

RECURSIVE SumaTamanos(_, _)
SumaTamanos(grupos, k) ==
    IF k = 0 THEN 0 ELSE Len(grupos[k].parejas) + SumaTamanos(grupos, k - 1)

\* The total compatibility score of the first k pools.
RECURSIVE ScoreTotal(_, _)
ScoreTotal(grupos, k) ==
    IF k = 0 THEN 0 ELSE grupos[k].score_compatibilidad + ScoreTotal(grupos, k - 1)

Maximo(S) == CHOOSE x \in S : \A y \in S : x >= y

Minimo(S) == CHOOSE x \in S : \A y \in S : x <= y

\* The best total over all ways to form disjoint triples of the entrants S.
RECURSIVE FuerzaBruta(_, _, _)
FuerzaBruta(S, disp, iter) ==
    IF Cardinality(S) < 3 THEN 0
    ELSE LET m == Minimo(S)
             resto == S \ { m }
         IN  Maximo({ FuerzaBruta(resto, disp, iter) } \cup
                    { Compatibilidad(<< m, ab[1], ab[2] >>, disp, iter).score
                          + FuerzaBruta(resto \ { ab[1], ab[2] }, disp, iter) :
                      ab \in { x \in resto \X resto : x[1] < x[2] } })

\* The claim's inputs: exactly 2 pools can be formed of the entrants.
DosGruposPosibles == Len(disponibles) <= 9 /\ Len(disponibles) \div 3 = 2

\* C15: formGroups puts every input entrant in exactly one pool or in the
\* leftover, never in both and never in two pools, and the pool sizes plus
\* the leftover count add up to the number of input entrants.
C15_Particion ==
    formados.hecho /\ formados.camino # "solo greedy" =>
        /\ \A p \in 1..Len(disponibles) :
               AparicionesEnGrupos(formados, p) + AparicionesEnSobrantes(formados, p) = 1
        /\ SumaTamanos(formados.grupos, Len(formados.grupos))
               + Len(formados.sinAsignar) = Len(disponibles)

\* formGroups has returned a pool and some leftover entrants.
C15_Witness ==
    /\ formados.hecho /\ formados.camino # "solo greedy"
    /\ Len(formados.grupos) >= 1
    /\ Len(formados.sinAsignar) >= 1

\* C18: for an input of at most 9 entrants where exactly 2 pools can be
\* formed, the total score of the pools the optimal search returns is at
\* least the best total of the brute-force enumeration of disjoint triples.
C18_OptimoNoPeorQueFuerzaBruta ==
    formados.hecho /\ formados.camino = "optimo" /\ DosGruposPosibles =>
        ScoreTotal(formados.grupos, Len(formados.grupos))
            >= FuerzaBruta(1..Len(disponibles), disponibles, iterFranjas)

\* The optimal search has returned two pools where the highest-scoring
\* triple is not part of the best total.
C18_Witness ==
    /\ formados.hecho /\ formados.camino = "optimo" /\ DosGruposPosibles
    /\ Len(formados.grupos) = 2
    /\ formados.grupos[1].score_compatibilidad < ScorePerfecto
    /\ formados.grupos[2].score_compatibilidad < ScorePerfecto
    /\ \E t \in (1..Len(disponibles)) \X (1..Len(disponibles)) \X (1..Len(disponibles)) :
           /\ t[1] < t[2] /\ t[2] < t[3]
           /\ Compatibilidad(t, disponibles, iterFranjas).score = ScorePerfecto

RECURSIVE AdmiteParticionPerfecta(_, _)
AdmiteParticionPerfecta(S, disp) ==
    IF S = {} THEN TRUE
    ELSE IF Cardinality(S) < 3 THEN FALSE
    ELSE LET m == Minimo(S)
             resto == S \ { m }
         IN  \E ab \in { x \in resto \X resto : x[1] < x[2] } :
                 /\ disp[m] \cap disp[ab[1]] \cap disp[ab[2]] # {}
                 /\ AdmiteParticionPerfecta(resto \ { ab[1], ab[2] }, disp)

\* C20: for 9 entrants whose availabilities admit a partition into 3 pools
\* each with a slot common to its 3 entrants, formGroups returns 3 pools,
\* each with score 3.0, and no leftover entrant.
C20_ParticionPerfecta ==
    /\ formados.hecho /\ formados.camino # "solo greedy"
    /\ Len(disponibles) = 9
    /\ AdmiteParticionPerfecta(1..Len(disponibles), disponibles)
    => /\ Len(formados.grupos) = 3
       /\ \A g \in 1..Len(formados.grupos) :
              formados.grupos[g].score_compatibilidad = ScorePerfecto
       /\ formados.sinAsignar = << >>

\* formGroups has returned for 9 entrants that admit a perfect partition
\* and whose highest-scoring first triple (entrants 1, 2, 3 share a slot)
\* is not in every perfect partition.
C20_Witness ==
    /\ formados.hecho /\ formados.camino = "optimo"
    /\ Len(disponibles) = 9
    /\ AdmiteParticionPerfecta(1..Len(disponibles), disponibles)
    /\ disponibles[1] \cap disponibles[2] \cap disponibles[3] # {}
    /\ ~AdmiteParticionPerfecta(4..9, disponibles)
    /\ ConjuntoDe(formados.grupos[1].parejas) # { 1, 2, 3 }

\* C36: after formGroups returns, every entrant in a returned pool has its
\* assigned-pool reference equal to that pool's identity, and every
\* leftover entrant has no assigned-pool reference.
C36_ReferenciasDeGrupo ==
    formados.hecho /\ formados.camino # "solo greedy"
    => /\ \A g \in 1..Len(formados.grupos) :
              \A p \in ConjuntoDe(formados.grupos[g].parejas) :
                  formados.asignado[p] = formados.grupos[g].id
       /\ \A i \in 1..Len(formados.sinAsignar) :
              formados.asignado[formados.sinAsignar[i]] = Nulo

\* ======================================================================
\* Part 6.  Manual pool edits (api/routes/parejas.py): an entrant is
\* assigned to a pool, removed from a pool, or moved or swapped between
\* pools.  The pools are the stored dicts; a request that answers with an
\* error saves nothing.
\* ======================================================================

\* Largest number of saved edits.
MaxEdiciones == 3

\* slot_destino is absent from the request.
SinSlot == -1

\* lista.pop(idx) for the 1-based index i.
SinIndice(lista, i) == SubSeq(lista, 1, i - 1) \o SubSeq(lista, i + 1, Len(lista))

\* Mutant of Sacar: the entrant is read at its index and the list keeps it
\* (lista[idx] instead of lista.pop(idx)).
Sacar_SinQuitar(lista, p) == lista

\* lista.pop(idx) at the first element equal to p.
Sacar(lista, p) ==
    LET
        \* The index of the first element of lista equal to p (enumerate ... break).
        IndiceDe(elems, elem) ==
            CHOOSE i \in 1..Len(elems) :
                elems[i] = elem /\ \A j \in 1..(i - 1) : elems[j] # elem
    IN
    SinIndice(lista, IndiceDe(lista, p))

\* The result of the formation is stored.
InitEdit ==
    LET
        SobrantesIniciales == << 7 >>
    IN
    LET
        \* The stored result the edits start from: two pools of three entrants and
        \* one entrant left over.
        GruposIniciales == << [ parejas |-> << 1, 2, 3 >> ], [ parejas |-> << 4, 5, 6 >> ] >>
    IN
    /\ gruposEdit = GruposIniciales
    /\ sinAsignarEdit = SobrantesIniciales
    /\ ediciones = 0
    /\ FixtureInactivo /\ CalInactivo /\ DiaInactivo /\ GrupoInactivo /\ FormInactivo /\ ScoreInactivo /\ ClasifInactivo /\ SolicitudesInactivas /\ LegadoInactivo /\ RecalculoInactivo

\* POST /remover-pareja-de-grupo
RemoverParejaDeGrupo(parejaId) ==
    LET
        \* The first pool that holds the entrant p, 0 when none does.
        GrupoQueContiene(grupos, p) ==
            IF \E g \in 1..Len(grupos) : p \in ConjuntoDe(grupos[g].parejas)
            THEN CHOOSE g \in 1..Len(grupos) :
                     /\ p \in ConjuntoDe(grupos[g].parejas)
                     /\ \A h \in 1..(g - 1) : p \notin ConjuntoDe(grupos[h].parejas)
            ELSE 0
    IN
    /\ ediciones < MaxEdiciones
    /\ GrupoQueContiene(gruposEdit, parejaId) # 0
    /\ gruposEdit' = [ gruposEdit EXCEPT
                         ![GrupoQueContiene(gruposEdit, parejaId)].parejas =
                             Sacar(@, parejaId) ]
    /\ sinAsignarEdit' = Append(sinAsignarEdit, parejaId)
    /\ ediciones' = ediciones + 1
    /\ UNCHANGED << vars, varsCal, varsDia, varsGrupo, varsForm, varsScore, varsClasif, varsSolicitudes, varsLegado, varsRecalculo >>

\* POST /intercambiar-pareja
IntercambiarPareja(parejaId, origen, destino, slot) ==
    LET
        \* intercambiar_pareja: the entrant leaves its pool for the slot of the
        \* destination pool; the entrant found in that slot goes to the end of the
        \* origin pool; with no entrant in the slot the entrant is inserted there.
        Intercambio(grupos, pid, desde, hacia, pos) ==
            LET tras == [ grupos EXCEPT ![desde].parejas = Sacar(@, pid) ]
            IN  IF pos < Len(tras[hacia].parejas)
                THEN LET enSlot == tras[hacia].parejas[pos + 1]
                         puesto == [ tras EXCEPT ![hacia].parejas[pos + 1] = pid ]
                     IN  [ puesto EXCEPT ![desde].parejas = Append(@, enSlot) ]
                ELSE [ tras EXCEPT ![hacia].parejas = Append(@, pid) ]
    IN
    /\ ediciones < MaxEdiciones
    /\ origen \in 1..Len(gruposEdit)
    /\ destino \in 1..Len(gruposEdit)
    /\ parejaId \in ConjuntoDe(gruposEdit[origen].parejas)
    /\ gruposEdit' = Intercambio(gruposEdit, parejaId, origen, destino, slot)
    /\ ediciones' = ediciones + 1
    /\ UNCHANGED << sinAsignarEdit,
                    vars, varsCal, varsDia, varsGrupo, varsForm, varsScore, varsClasif, varsSolicitudes, varsLegado, varsRecalculo >>

\* POST /asignar-pareja-a-grupo
AsignarParejaAGrupo(parejaId, grupoId, removerId, slot) ==
    LET
        \* asignar_pareja_a_grupo, the step "if pareja_a_remover_id": the named
        \* entrant leaves the pool for the leftover list when the pool holds it.
        ConReemplazo(grupos, sinAsignar, gid, rid) ==
            IF rid # Nulo /\ rid \in ConjuntoDe(grupos[gid].parejas)
            THEN [ grupos |-> [ grupos EXCEPT ![gid].parejas = Sacar(@, rid) ],
                   sinAsignar |-> Append(sinAsignar, rid) ]
            ELSE [ grupos |-> grupos, sinAsignar |-> sinAsignar ]
    IN
    LET
        \* lista.insert(slot, p) for a 0-based slot <= len(lista).
        Insertar(lista, pos, p) ==
            SubSeq(lista, 1, pos) \o << p >> \o SubSeq(lista, pos + 1, Len(lista))
    IN
    /\ ediciones < MaxEdiciones
    /\ parejaId \in ConjuntoDe(sinAsignarEdit)
    /\ grupoId \in 1..Len(gruposEdit)
    /\ LET r == ConReemplazo(gruposEdit, Sacar(sinAsignarEdit, parejaId),
                             grupoId, removerId)
           enGrupo == r.grupos[grupoId].parejas
       IN  /\ ~(Len(enGrupo) >= TamanoGrupo /\ removerId = Nulo)
           /\ gruposEdit' =
                  [ r.grupos EXCEPT ![grupoId].parejas =
                        IF slot # SinSlot /\ slot < Len(enGrupo)
                        THEN Insertar(enGrupo, slot, parejaId)
                        ELSE Append(enGrupo, parejaId) ]
           /\ sinAsignarEdit' = r.sinAsignar
    /\ ediciones' = ediciones + 1
    /\ UNCHANGED << vars, varsCal, varsDia, varsGrupo, varsForm, varsScore, varsClasif, varsSolicitudes, varsLegado, varsRecalculo >>

NextEdit ==
    LET
        SlotsDestino == 0..2
    IN
    LET
        IdsGrupoEntrada == 1..3
    IN
    LET
        \* The ids a request can carry: the entrants, the pools and a pool id that
        \* does not exist, the slots 0, 1, 2.
        IdsPareja == 1..7
    IN
    \/ \E p \in IdsPareja : RemoverParejaDeGrupo(p)
    \/ \E p \in IdsPareja, o \in IdsGrupoEntrada, d \in IdsGrupoEntrada,
          s \in SlotsDestino : IntercambiarPareja(p, o, d, s)
    \/ \E p \in IdsPareja, g \in IdsGrupoEntrada, r \in IdsPareja \cup { Nulo },
          s \in SlotsDestino \cup { SinSlot } : AsignarParejaAGrupo(p, g, r, s)

SpecEdit == InitEdit /\ [][NextEdit]_varsEdit

\* C16: after any sequence of manual pool edits (assign with or without an
\* entrant to replace, remove, swap or move), no pool holds more than 3
\* entrants.
C16_GrupoNoExcedeTres ==
    \A g \in 1..Len(gruposEdit) : Len(gruposEdit[g].parejas) <= TamanoGrupo

\* How many times the entrant p is in the stored pools and in the stored
\* leftover list.
VecesEnGrupos(p) ==
    Cardinality({ gi \in UNION { { << g, i >> : i \in 1..Len(gruposEdit[g].parejas) } :
                                 g \in 1..Len(gruposEdit) } :
                    gruposEdit[gi[1]].parejas[gi[2]] = p })
VecesSinAsignar(p) ==
    Cardinality({ i \in 1..Len(sinAsignarEdit) : sinAsignarEdit[i] = p })

\* The entrants of the stored result the edits start from.
ParejasEdit == 1..7

\* C33: after any sequence of manual pool edits (assign, remove, swap or
\* move), every entrant is in exactly one place: in exactly one pool or in
\* the leftover list, never duplicated and never lost.
C33_CadaParejaEnUnLugar ==
    \A p \in ParejasEdit : VecesEnGrupos(p) + VecesSinAsignar(p) = 1

\* Edits of all three kinds have been saved and moved entrants both ways.
C33_Witness ==
    /\ ediciones = MaxEdiciones
    /\ 7 \in ConjuntoDe(gruposEdit[1].parejas)
    /\ 1 \in ConjuntoDe(sinAsignarEdit)
    /\ 2 \in ConjuntoDe(gruposEdit[2].parejas)

\* ======================================================================
\* Part 7.  The compatibility scorer on its own
\* (AlgoritmoGrupos._calcular_compatibilidad): three entrants are scored in
\* several orders.  The scorer iterates Python sets of slot labels, whose
\* order depends on how each set was built, so every call has its own
\* iteration order.
\* ======================================================================

\* Largest number of orders of the three entrants that are scored.
MaxPuntuados == 2

\* The slot labels the three entrants list: two hours of one day and an
\* hour of another day.
FranjasScore == << "Jueves 18:00", "Jueves 20:00", "Viernes 18:00" >>

\* Three entrants with any availabilities.
InitScore ==
    /\ franjasTrio \in [1..3 -> SUBSET ConjuntoDe(FranjasScore)]
    /\ puntuados = {}
    /\ FixtureInactivo /\ CalInactivo /\ DiaInactivo /\ GrupoInactivo /\ FormInactivo /\ EditInactivo /\ ClasifInactivo /\ SolicitudesInactivas /\ LegadoInactivo /\ RecalculoInactivo

\* _calcular_compatibilidad of the three entrants in the order perm
Puntuar(perm, iter) ==
    /\ Cardinality(puntuados) < MaxPuntuados
    /\ \A r \in puntuados : r.perm # perm
    /\ LET res == CalcularCompatibilidad(
                      << franjasTrio[perm[1]], franjasTrio[perm[2]],
                         franjasTrio[perm[3]] >>, iter)
       IN  puntuados' = puntuados \cup
               { [ perm |-> perm, score |-> res.score, franja |-> res.franja ] }
    /\ UNCHANGED << franjasTrio,
                    vars, varsCal, varsDia, varsGrupo, varsForm, varsEdit, varsClasif, varsSolicitudes, varsLegado, varsRecalculo >>

NextScore ==
    LET
        \* The orders in which a set of those labels can be iterated.
        OrdenesDeIteracion == { [ i \in 1..3 |-> FranjasScore[o[i]] ] : o \in Ordenes }
    IN
    \E perm \in Ordenes, iter \in OrdenesDeIteracion : Puntuar(perm, iter)

SpecScore == InitScore /\ [][NextScore]_varsScore

\* ------------------------------------------------------------- claims
\* C21: for every 3 entrants and every permutation of them, the scorer
\* returns the same score and the same slot.
C21_SimetricoBajoPermutacion ==
    \A a, b \in puntuados : a.score = b.score /\ a.franja = b.franja

\* The days on which an entrant lists a slot.
DiasDe(franjas) == { DiaDeFranja[f] : f \in franjas }

\* No entrant of the trio shares a calendar day with any other.
SinDiaCompartido ==
    \A i, j \in 1..3 : i # j => DiasDe(franjasTrio[i]) \cap DiasDe(franjasTrio[j]) = {}

\* C22: for 3 entrants among whom no entrant shares a calendar day with any
\* other, the scorer returns score 0.0 and no slot.
C22_SinDiaCompartidoCero ==
    \A r \in puntuados :
        SinDiaCompartido => r.score = 0 /\ r.franja = SinFranja

\* The contribution of one entrant to a candidate slot, in half points:
\* 1.0 for the exact slot, 0.5 for another slot of the same day, else 0.
AporteEsperado(candidata, franjas) ==
    IF candidata \in franjas THEN 2
    ELSE IF \E f \in franjas : DiaDeFranja[f] = DiaDeFranja[candidata] THEN 1
    ELSE 0

SumaEsperada(candidata) ==
    AporteEsperado(candidata, franjasTrio[1]) + AporteEsperado(candidata, franjasTrio[2])
        + AporteEsperado(candidata, franjasTrio[3])

FranjasComunes == franjasTrio[1] \cap franjasTrio[2] \cap franjasTrio[3]

TodasLasFranjas == franjasTrio[1] \cup franjasTrio[2] \cup franjasTrio[3]

\* C23: with a slot common to the three availability sets the scorer
\* returns 3.0 and a slot of the intersection; otherwise it returns the
\* maximum over the slots of the union of the summed contributions (1.0 exact
\* slot, 0.5 same day, 0.0 otherwise) and a slot that attains it.
C23_ScoreSegunReglas ==
    \A r \in puntuados :
        /\ FranjasComunes # {} =>
               r.score = 6 /\ r.franja \in FranjasComunes
        /\ FranjasComunes = {} /\ TodasLasFranjas # {} =>
               /\ r.franja \in TodasLasFranjas
               /\ r.score = SumaEsperada(r.franja)
               /\ \A c \in TodasLasFranjas : SumaEsperada(c) <= r.score

\* A trio without a common slot has been scored 1.0 + 1.0 + 0.5: two
\* entrants list the slot and the third another hour of that day.
C23_Witness ==
    \E r \in puntuados :
        /\ FranjasComunes = {}
        /\ r.score = 5
        /\ \E i \in 1..3 : AporteEsperado(r.franja, franjasTrio[i]) = 1

\* ---------------------------------------------------------------------
\* Part 8: recording pool results and computing the standings
\* (ResultadoPartido and Grupo in core/models.py, CalculadorClasificacion
\* in core/clasificacion.py, guardar_resultado_partido in the API).
\* ---------------------------------------------------------------------

MaxGuardados == 3

\* None in a games or tiebreak field of a request.
SinDato == -1

\* The ids a request may name; the route does not check that they differ.
IdsClasif == 1..3

Marcadores ==
    LET
        \* The scorelines a request carries: games of set 1, games of set 2 and the
        \* super tiebreak, each for pareja 1 then pareja 2.
        Marcador(a1, a2, b1, b2, t1, t2) ==
            [ games_set1_pareja1 |-> a1, games_set1_pareja2 |-> a2,
              games_set2_pareja1 |-> b1, games_set2_pareja2 |-> b2,
              tiebreak_pareja1 |-> t1, tiebreak_pareja2 |-> t2 ]
    IN
    { Marcador(6, 4, 6, 4, SinDato, SinDato),
      Marcador(4, 6, 4, 6, SinDato, SinDato),
      Marcador(6, 4, 4, 6, 10, 8),
      Marcador(6, 4, 4, 6, 8, 10),
      Marcador(6, 4, 4, 6, 10, 10),
      Marcador(6, 4, 4, 6, SinDato, SinDato),
      Marcador(6, 4, SinDato, SinDato, SinDato, SinDato) }

\* ResultadoPartido.esta_completo
ResultadoCompleto(r) ==
    IF SinDato \in { r.games_set1_pareja1, r.games_set1_pareja2,
                     r.games_set2_pareja1, r.games_set2_pareja2 }
    THEN FALSE
    ELSE IF r.sets_pareja1 = 1 /\ r.sets_pareja2 = 1
         THEN r.tiebreak_pareja1 # SinDato /\ r.tiebreak_pareja2 # SinDato
         ELSE TRUE

\* A winner rule that awards a 1-1 match to pareja 1 whatever the tiebreak.
CalcularGanador_SinTiebreak(r) ==
    IF ~ResultadoCompleto(r) THEN Nulo
    ELSE IF r.sets_pareja1 = 2 THEN r.pareja1_id
    ELSE IF r.sets_pareja2 = 2 THEN r.pareja2_id
    ELSE IF r.sets_pareja1 = 1 /\ r.sets_pareja2 = 1 THEN r.pareja1_id
    ELSE Nulo

\* ResultadoPartido.calcular_ganador (Nulo: no winner)
CalcularGanador(r) ==
    IF ~ResultadoCompleto(r) THEN Nulo
    ELSE IF r.sets_pareja1 = 2 THEN r.pareja1_id
    ELSE IF r.sets_pareja2 = 2 THEN r.pareja2_id
    ELSE IF r.sets_pareja1 = 1 /\ r.sets_pareja2 = 1
         THEN IF r.tiebreak_pareja1 > r.tiebreak_pareja2 THEN r.pareja1_id
              ELSE IF r.tiebreak_pareja2 > r.tiebreak_pareja1 THEN r.pareja2_id
              ELSE Nulo
    ELSE Nulo

\* ResultadoPartido.total_games_pareja
TotalGamesPareja(r, parejaId) ==
    LET
        \* A games field as total_games_pareja adds it: None adds nothing.
        GamesDe(campo) == IF campo # SinDato THEN campo ELSE 0
    IN
    IF parejaId = r.pareja1_id
    THEN GamesDe(r.games_set1_pareja1) + GamesDe(r.games_set2_pareja1)
    ELSE IF parejaId = r.pareja2_id
    THEN GamesDe(r.games_set1_pareja2) + GamesDe(r.games_set2_pareja2)
    ELSE 0

\* Grupo.get_resultado_key: the two ids in ascending order.
ResultadoKey(p1, p2) == IF p1 <= p2 THEN << p1, p2 >> ELSE << p2, p1 >>

\* ResultadoPartido.to_dict: the fields and the winner, as the route stores
\* them (from_dict reads the fields back and ignores ganador_id).
ResultadoDe(p1, p2, m) ==
    LET
        \* The ResultadoPartido the route builds from a request.
        ResultadoPartido(id1, id2, marcador) ==
            LET
                \* The sets one set's games give to pareja 1 and pareja 2 in the route: a
                \* set with both fields present goes to pareja 1 only on strictly more games.
                SetsDelSet(g1, g2) ==
                    IF g1 # SinDato /\ g2 # SinDato
                    THEN IF g1 > g2 THEN << 1, 0 >> ELSE << 0, 1 >>
                    ELSE << 0, 0 >>
            IN
            LET s1 == SetsDelSet(marcador.games_set1_pareja1, marcador.games_set1_pareja2)
                s2 == SetsDelSet(marcador.games_set2_pareja1, marcador.games_set2_pareja2)
            IN  [ pareja1_id |-> id1, pareja2_id |-> id2,
                  sets_pareja1 |-> s1[1] + s2[1], sets_pareja2 |-> s1[2] + s2[2],
                  games_set1_pareja1 |-> marcador.games_set1_pareja1,
                  games_set1_pareja2 |-> marcador.games_set1_pareja2,
                  games_set2_pareja1 |-> marcador.games_set2_pareja1,
                  games_set2_pareja2 |-> marcador.games_set2_pareja2,
                  tiebreak_pareja1 |-> marcador.tiebreak_pareja1,
                  tiebreak_pareja2 |-> marcador.tiebreak_pareja2 ]
    IN
    LET r == ResultadoPartido(p1, p2, m)
    IN  [ pareja1_id |-> r.pareja1_id, pareja2_id |-> r.pareja2_id,
          sets_pareja1 |-> r.sets_pareja1, sets_pareja2 |-> r.sets_pareja2,
          games_set1_pareja1 |-> r.games_set1_pareja1,
          games_set1_pareja2 |-> r.games_set1_pareja2,
          games_set2_pareja1 |-> r.games_set2_pareja1,
          games_set2_pareja2 |-> r.games_set2_pareja2,
          tiebreak_pareja1 |-> r.tiebreak_pareja1,
          tiebreak_pareja2 |-> r.tiebreak_pareja2,
          ganador_id |-> CalcularGanador(r) ]

\* How many of the stored results are complete.
CuentaCompletos(resultados) ==
    Cardinality({ k \in DOMAIN resultados : ResultadoCompleto(resultados[k]) })

\* Grupo.todos_resultados_completos: a pool of three entrants with three
\* complete results stored, whatever their keys.
TodosResultadosCompletos(parejas, resultados) ==
    /\ Len(parejas) = TamanoGrupo
    /\ CuentaCompletos(resultados) = PartidosPorGrupo

RECURSIVE EstadisticasDe(_, _, _)
\* The totals of one entrant over the stored results under the keys claves.
EstadisticasDe(resultados, claves, parejaId) ==
    LET
        \* What one stored result adds to an entrant's totals in
        \* calcular_estadisticas_grupo: nothing when the result is incomplete or has
        \* no winner.
        AporteResultado(r, pid) ==
            LET ganador == CalcularGanador(r)
            IN  IF ~ResultadoCompleto(r) \/ ganador = Nulo
                THEN [ partidos_ganados |-> 0, sets_ganados |-> 0, games_ganados |-> 0 ]
                ELSE [ partidos_ganados |-> IF ganador = pid THEN 1 ELSE 0,
                       sets_ganados |->
                           (IF r.pareja1_id = pid THEN r.sets_pareja1 ELSE 0)
                         + (IF r.pareja2_id = pid THEN r.sets_pareja2 ELSE 0),
                       games_ganados |->
                           (IF r.pareja1_id = pid
                            THEN TotalGamesPareja(r, r.pareja1_id) ELSE 0)
                         + (IF r.pareja2_id = pid
                            THEN TotalGamesPareja(r, r.pareja2_id) ELSE 0) ]
    IN
    IF claves = {}
    THEN [ pareja_id |-> parejaId,
           partidos_ganados |-> 0, sets_ganados |-> 0, games_ganados |-> 0 ]
    ELSE LET k == CHOOSE c \in claves : TRUE
             resto == EstadisticasDe(resultados, claves \ { k }, parejaId)
             a == AporteResultado(resultados[k], parejaId)
         IN  [ pareja_id |-> parejaId,
               partidos_ganados |-> resto.partidos_ganados + a.partidos_ganados,
               sets_ganados |-> resto.sets_ganados + a.sets_ganados,
               games_ganados |-> resto.games_ganados + a.games_ganados ]

\* CalculadorClasificacion.calcular_estadisticas_grupo: one entry per
\* entrant, in the order of the pool's list.
CalcularEstadisticasGrupo(parejas, resultados) ==
    [ i \in 1..Len(parejas) |->
        EstadisticasDe(resultados, DOMAIN resultados, parejas[i]) ]

\* The sort key (partidos_ganados, sets_ganados, games_ganados) of a is
\* greater than that of b.
ClaveMayor(a, b) ==
    \/ a.partidos_ganados > b.partidos_ganados
    \/ /\ a.partidos_ganados = b.partidos_ganados
       /\ \/ a.sets_ganados > b.sets_ganados
          \/ /\ a.sets_ganados = b.sets_ganados
             /\ a.games_ganados > b.games_ganados

\* CalculadorClasificacion.ordenar_parejas: sorted(..., reverse=True), which
\* is stable: entries with equal keys keep their order.
OrdenarParejas(estadisticas) ==
    LET n == Len(estadisticas)
        Antes(j) == Cardinality({ k \in 1..n :
            \/ ClaveMayor(estadisticas[k], estadisticas[j])
            \/ /\ ~ClaveMayor(estadisticas[j], estadisticas[k])
               /\ k < j })
    IN  [ i \in 1..n |-> estadisticas[CHOOSE j \in 1..n : Antes(j) = i - 1] ]

\* The empty mapping asignar_posiciones returns.
SinPosiciones == << >>

\* CalculadorClasificacion.asignar_posiciones: pareja id -> 1, 2 or 3.
AsignarPosicionesGrupo(parejas, resultados) ==
    IF ~TodosResultadosCompletos(parejas, resultados) THEN SinPosiciones
    ELSE LET ordenadas ==
                 OrdenarParejas(CalcularEstadisticasGrupo(parejas, resultados))
         IN  [ id \in { parejas[i] : i \in 1..Len(parejas) } |->
                 CHOOSE i \in 1..Len(ordenadas) : ordenadas[i].pareja_id = id ]

InitClasif ==
    LET
        \* The pools the results are recorded for, as entrant ids in list order.
        PoolsClasif == { << 1, 2, 3 >>, << 3, 1, 2 >>, << 1, 2 >> }
    IN
    /\ parejasClasif \in PoolsClasif
    /\ resultadosClasif = << >>
    /\ completosClasif = FALSE
    /\ posicionesClasif = [ id \in { parejasClasif[i] : i \in 1..Len(parejasClasif) } |-> Nulo ]
    /\ guardados = 0
    /\ FixtureInactivo /\ CalInactivo /\ DiaInactivo /\ GrupoInactivo /\ FormInactivo /\ EditInactivo /\ ScoreInactivo /\ SolicitudesInactivas /\ LegadoInactivo /\ RecalculoInactivo

\* POST /guardar-resultado-partido: the result is stored under the key of
\* its two ids, the completeness flag is recomputed and, when it is set,
\* every entrant's posicion_grupo is overwritten with the standings.
GuardarResultadoPartido(p1, p2, m) ==
    /\ guardados < MaxGuardados
    /\ LET nuevo == ResultadoDe(p1, p2, m)
           key == ResultadoKey(p1, p2)
           resultados == [ k \in DOMAIN resultadosClasif \cup { key } |->
                             IF k = key THEN nuevo ELSE resultadosClasif[k] ]
           estanCompletos == /\ Len(parejasClasif) = TamanoGrupo
                        /\ CuentaCompletos(resultados) = PartidosPorGrupo
           posiciones == AsignarPosicionesGrupo(parejasClasif, resultados)
       IN  /\ resultadosClasif' = resultados
           /\ completosClasif' = estanCompletos
           /\ posicionesClasif' =
                  IF estanCompletos
                  THEN [ id \in DOMAIN posicionesClasif |->
                           IF id \in DOMAIN posiciones THEN posiciones[id]
                           ELSE posicionesClasif[id] ]
                  ELSE posicionesClasif
    /\ guardados' = guardados + 1
    /\ UNCHANGED << parejasClasif,
                    vars, varsCal, varsDia, varsGrupo, varsForm, varsEdit, varsScore, varsSolicitudes, varsLegado, varsRecalculo >>

NextClasif ==
    \E p1 \in IdsClasif, p2 \in IdsClasif, m \in Marcadores :
        p1 <= p2 /\ GuardarResultadoPartido(p1, p2, m)

SpecClasif == InitClasif /\ [][NextClasif]_varsClasif

\* The round-robin matches of the pool, as result keys.
PartidosDelGrupo ==
    { ResultadoKey(parejasClasif[i], parejasClasif[j]) :
        i \in 1..Len(parejasClasif), j \in 1..Len(parejasClasif) } \
    { << id, id >> : id \in IdsClasif }

\* Every round-robin match of a pool of three has a complete result stored.
TresPartidosCompletos ==
    /\ Len(parejasClasif) = TamanoGrupo
    /\ \A k \in PartidosDelGrupo :
          k \in DOMAIN resultadosClasif /\ ResultadoCompleto(resultadosClasif[k])

\* C24: the standings are the empty mapping unless all three round-robin
\* matches of the pool have complete results, and when they have, exactly
\* one entrant stands at each of 1st, 2nd and 3rd.
C24_PosicionesSoloConTresPartidos ==
    LET pos == AsignarPosicionesGrupo(parejasClasif, resultadosClasif)
    IN  /\ DOMAIN pos # {} => TresPartidosCompletos
        /\ TresPartidosCompletos =>
              \A lugar \in 1..TamanoGrupo :
                  Cardinality({ id \in DOMAIN pos : pos[id] = lugar }) = 1

\* The stored results are exactly the pool's three matches, all complete.
SoloLosTresPartidos ==
    TresPartidosCompletos /\ DOMAIN resultadosClasif = PartidosDelGrupo

RECURSIVE TotalesBrutos(_, _)
\* The raw totals of an entrant over the complete results under claves:
\* matches won, sets won and games won in the two regular sets.
TotalesBrutos(claves, id) ==
    IF claves = {}
    THEN [ partidos_ganados |-> 0, sets_ganados |-> 0, games_ganados |-> 0 ]
    ELSE LET k == CHOOSE c \in claves : TRUE
             r == resultadosClasif[k]
             resto == TotalesBrutos(claves \ { k }, id)
             esP1 == r.pareja1_id = id
             esP2 == r.pareja2_id = id
         IN  IF ~ResultadoCompleto(r) THEN resto
             ELSE [ partidos_ganados |-> resto.partidos_ganados
                        + (IF CalcularGanador(r) = id THEN 1 ELSE 0),
                    sets_ganados |-> resto.sets_ganados
                        + (IF esP1 THEN r.sets_pareja1 ELSE 0)
                        + (IF esP2 THEN r.sets_pareja2 ELSE 0),
                    games_ganados |-> resto.games_ganados
                        + (IF esP1 THEN r.games_set1_pareja1 + r.games_set2_pareja1 ELSE 0)
                        + (IF esP2 THEN r.games_set1_pareja2 + r.games_set2_pareja2 ELSE 0) ]

\* C25: once the pool's three matches have complete results, the standings
\* order the entrants by matches won, then sets won, then games won (raw
\* totals over the complete results, descending), and entrants equal on all
\* three keep their relative order from the pool's list.
C25_OrdenPorTotalesBrutos ==
    SoloLosTresPartidos =>
        LET pos == AsignarPosicionesGrupo(parejasClasif, resultadosClasif)
            T(i) == TotalesBrutos(DOMAIN resultadosClasif, parejasClasif[i])
        IN  \A i, j \in 1..Len(parejasClasif) :
                i # j =>
                    ( pos[parejasClasif[i]] < pos[parejasClasif[j]]
                      <=> \/ ClaveMayor(T(i), T(j))
                          \/ ~ClaveMayor(T(j), T(i)) /\ i < j )

\* The winner stored with a complete result is the one the rules name: the
\* entrant with two sets; on 1-1 the entrant with more tiebreak points; on
\* 1-1 with equal tiebreak points nobody.
GanadorSegunReglas(r) ==
    ResultadoCompleto(r) =>
        /\ r.sets_pareja1 = 2 => r.ganador_id = r.pareja1_id
        /\ r.sets_pareja2 = 2 => r.ganador_id = r.pareja2_id
        /\ r.sets_pareja1 = 1 /\ r.sets_pareja2 = 1 =>
              /\ r.tiebreak_pareja1 > r.tiebreak_pareja2 => r.ganador_id = r.pareja1_id
              /\ r.tiebreak_pareja2 > r.tiebreak_pareja1 => r.ganador_id = r.pareja2_id
              /\ r.tiebreak_pareja1 = r.tiebreak_pareja2 => r.ganador_id = Nulo

\* The keys whose stored result a step adds or changes.
ResultadosCambiados ==
    { k \in DOMAIN resultadosClasif' :
        \/ k \notin DOMAIN resultadosClasif
        \/ resultadosClasif'[k] # resultadosClasif[k] }

\* C26: every complete result that is recorded carries the winner the rules
\* name (two sets; on 1-1 the higher tiebreak total; nobody on an equal
\* tiebreak), and recording a result changes no other match's result.
C26_GanadorYSoloEseResultado ==
    [][ /\ \A k \in DOMAIN resultadosClasif' :
              GanadorSegunReglas(resultadosClasif'[k])
        /\ DOMAIN resultadosClasif \subseteq DOMAIN resultadosClasif'
        /\ Cardinality(ResultadosCambiados) <= 1 ]_varsClasif

\* Two matches have results, one of them 6-4 4-6 with tiebreak 10-8 and won
\* by its first entrant, and a third match has a result without a winner.
C26_Witness ==
    \E k1, k2, k3 \in DOMAIN resultadosClasif :
        /\ k1 # k2 /\ k1 # k3 /\ k2 # k3
        /\ LET r == resultadosClasif[k1]
           IN  /\ r.sets_pareja1 = 1 /\ r.sets_pareja2 = 1
               /\ r.tiebreak_pareja1 = 10 /\ r.tiebreak_pareja2 = 8
               /\ r.ganador_id = r.pareja1_id
        /\ resultadosClasif[k2].sets_pareja2 = 2
        /\ resultadosClasif[k2].ganador_id = resultadosClasif[k2].pareja2_id
        /\ ResultadoCompleto(resultadosClasif[k3])
        /\ resultadosClasif[k3].ganador_id = Nulo

\* C35: whenever the standings computed for the pool are not empty, each of
\* the pool's 3 matches has a result with a determinable winner, so the
\* matches-won counts of the 3 entrants sum to 3.
C35_PartidosGanadosSumanTres ==
    LET pos == AsignarPosicionesGrupo(parejasClasif, resultadosClasif)
        est == CalcularEstadisticasGrupo(parejasClasif, resultadosClasif)
    IN  DOMAIN pos # {} =>
            /\ \A k \in PartidosDelGrupo :
                   /\ k \in DOMAIN resultadosClasif
                   /\ CalcularGanador(resultadosClasif[k]) # Nulo
            /\ est[1].partidos_ganados + est[2].partidos_ganados
                   + est[3].partidos_ganados = PartidosPorGrupo

(***************************************************************************)
(* Further claims on the bracket of Part 1: the rounds and first-round     *)
(* pairings that generar_fixture builds.                                   *)
(***************************************************************************)
\* The stored bracket is the one generar_fixture has just built.
RecienGenerado == ultimo.op \in { "generar", "regenerar" }

\* No entrant in either slot.
SlotsVacios(m) == m.pareja1 = Nulo /\ m.pareja2 = Nulo

SeCruzanPrimeroYSegundo(m) ==
    \E g \in Grupos :
        { m.pareja1, m.pareja2 } = { Kesimo(g, 1), Kesimo(g, 2) }

\* C29: with 4 to 7 pools, all with complete standings, the Quarterfinals
\* are 1A-2C, 1D-2B, 1B-2D and 1C-2A, and however winners are recorded and
\* propagated, the 1st and the 2nd of one pool stand in the same match only
\* in the Final.
C29_CrucesHastaLaFinal ==
    (ultimo.op # "ninguna" /\ numGrupos \in 4..7 /\ completos = Grupos) =>
        /\ fixture.cuartos[1].pareja1 = Kesimo(0, 1)
        /\ fixture.cuartos[1].pareja2 = Kesimo(2, 2)
        /\ fixture.cuartos[2].pareja1 = Kesimo(3, 1)
        /\ fixture.cuartos[2].pareja2 = Kesimo(1, 2)
        /\ fixture.cuartos[3].pareja1 = Kesimo(1, 1)
        /\ fixture.cuartos[3].pareja2 = Kesimo(3, 2)
        /\ fixture.cuartos[4].pareja1 = Kesimo(2, 1)
        /\ fixture.cuartos[4].pareja2 = Kesimo(0, 2)
        /\ \A pos \in Posiciones :
               SeCruzanPrimeroYSegundo(PartidoEn(fixture, pos))
               => pos = << "final", 1 >>

\* C29 witness: with 5 pools, the 1st and the 2nd of pool A have been
\* propagated from their Quarterfinals through the two Semifinals and
\* stand in the two slots of the Final.
C29_Witness ==
    /\ numGrupos = 5 /\ completos = Grupos
    /\ fixture.final # SinFinal
    /\ fixture.final.pareja1 = Kesimo(0, 1)
    /\ fixture.final.pareja2 = Kesimo(0, 2)
    /\ fixture.semifinales[1].ganador = Kesimo(0, 1)
    /\ fixture.semifinales[2].ganador = Kesimo(0, 2)

\* The index of the pool an entrant belongs to (see ParejasDe).
GrupoDe(id) == (id - 1) \div 3

\* C30: with 2 or more pools, every match of the generated first round
\* (Round-of-16 with 8 or more pools, Quarterfinals otherwise) that has both
\* slots filled pairs entrants of two different pools.
C30_PrimeraRondaEntreGrupos ==
    (RecienGenerado /\ numGrupos >= 2) =>
        \A i \in 1..Len(PrimeraRonda) :
            LET m == PrimeraRonda[i]
            IN  AmbosSlots(m) => GrupoDe(m.pareja1) # GrupoDe(m.pareja2)

\* The first-round slots <<match index, slot>> that hold the entrant id.
SlotsCon(id) ==
    { ik \in (1..Len(PrimeraRonda)) \X (1..2) :
        (IF ik[2] = 1 THEN PrimeraRonda[ik[1]].pareja1
                      ELSE PrimeraRonda[ik[1]].pareja2) = id }

\* C34: for every pool count from 2 to 8, every pool with complete standings
\* has its 1st-place entrant and its 2nd-place entrant each in exactly one
\* first-round slot of the generated bracket.
C34_ClasificadosEnPrimeraRonda ==
    (RecienGenerado /\ numGrupos \in 2..8) =>
        \A g \in completos : \A k \in 1..2 :
            Cardinality(SlotsCon(Kesimo(g, k))) = 1

\* The number of pools with complete standings before the pool at index g:
\* the index of the pool's entrants in the lists of
\* obtener_clasificados_por_posicion.
CompletosAntes(g) == Cardinality({ h \in completos : h < g })

\* C34, amended: for every pool count from 2 to 8, the 1st and the 2nd of a
\* pool with complete standings are each in exactly one first-round slot when
\* there are 8 pools or fewer than 4 complete pools come before it; the
\* Quarterfinals of 5 to 7 pools have no slot for the complete pools after
\* the fourth, whose 1st and 2nd are in no first-round slot.
C34_ClasificadosConSlot ==
    (RecienGenerado /\ numGrupos \in 2..8) =>
        \A g \in completos : \A k \in 1..2 :
            Cardinality(SlotsCon(Kesimo(g, k))) =
                (IF numGrupos >= 8 \/ CompletosAntes(g) < 4 THEN 1 ELSE 0)

\* Five pools, all complete: the 1st of pool E is in no Quarterfinal, the
\* 1st of pool D is in one; and eight pools, all complete, all in a slot.
C34_Witness ==
    /\ RecienGenerado
    /\ completos = Grupos
    /\ \/ /\ numGrupos = 5
          /\ SlotsCon(Kesimo(4, 1)) = {}
          /\ SlotsCon(Kesimo(3, 1)) = { << 2, 1 >> }
       \/ /\ numGrupos = 8
          /\ SlotsCon(Kesimo(7, 2)) = { << 8, 2 >> }

(***************************************************************************)
(* Part 9: record-winner requests served by separate workers               *)
(*   api/routes/finales.py    actualizar_ganador_partido                   *)
(*   utils/torneo_storage.py  TorneoStorage.cargar, TorneoStorage.guardar  *)
(*   gunicorn.conf.py         workers                                      *)
(* Each worker is a process: a request reads the whole stored document,    *)
(* changes its own copy and writes the whole document back.                *)
(***************************************************************************)
\* Pool counts of the stored bracket: Quarterfinals with two and with four
\* filled matches.
GruposAlmacenados == { 3, 4 }

\* What a request can carry for a stored bracket: the id of a Quarterfinal
\* with both slots filled or an id no match has, and one of the entrants of
\* that Quarterfinal or an entrant of no slot of it.
PedidosPara(f) ==
    UNION { { [ partido |-> f.cuartos[n].id, ganador |-> g ] :
                g \in { f.cuartos[n].pareja1, f.cuartos[n].pareja2,
                        3 * MaxGrupos } } :
            n \in { i \in 1..Len(f.cuartos) :
                      f.cuartos[i].pareja1 # Nulo /\ f.cuartos[i].pareja2 # Nulo } }
        \cup { [ partido |-> << "cuartos", 5 >>, ganador |-> 1 ] }

\* workers of gunicorn.conf.py: the requests that can be in the route at the
\* same time, one per worker process.
workers == 2

Solicitudes == 1..workers

\* A bracket is stored; the requests have arrived and none has started.
InitSolicitudes ==
    /\ \E p \in GruposAlmacenados :
           almacenado = GenerarFixture(p, 0..(p - 1), OrdenJuego)
    /\ pedidos \in [ Solicitudes -> PedidosPara(almacenado) ]
    /\ torneoLocal = [ s \in Solicitudes |-> FixtureFinales ]
    /\ pasoSolicitud = [ s \in Solicitudes |-> "recibida" ]
    /\ estadoHttp = [ s \in Solicitudes |-> 0 ]
    /\ FixtureInactivo /\ CalInactivo /\ DiaInactivo /\ GrupoInactivo /\ FormInactivo /\ EditInactivo /\ ScoreInactivo /\ ClasifInactivo /\ LegadoInactivo /\ RecalculoInactivo

\* torneo = storage.cargar(): the request gets the document as stored now.
CargarTorneo(s) ==
    /\ pasoSolicitud[s] = "recibida"
    /\ torneoLocal' = [ torneoLocal EXCEPT ![s] = almacenado ]
    /\ pasoSolicitud' = [ pasoSolicitud EXCEPT ![s] = "cargada" ]
    /\ UNCHANGED << almacenado, pedidos, estadoHttp,
                    vars, varsCal, varsDia, varsGrupo, varsForm, varsEdit, varsScore, varsClasif, varsLegado, varsRecalculo >>

\* The search for the match, the rebuilding of the bracket and
\* actualizar_ganador_partido on it, all on the request's own copy: 404 when
\* no match has the id, 500 when the winner is not recorded.
ActualizarEnCopia(s) ==
    /\ pasoSolicitud[s] = "cargada"
    /\ LET r == ActualizarGanadorPartido(torneoLocal[s], pedidos[s].partido,
                                         pedidos[s].ganador)
           encontrado == BuscarPartido(torneoLocal[s], pedidos[s].partido)[1] # "ninguna"
       IN  /\ torneoLocal' = [ torneoLocal EXCEPT ![s] = r.fixture ]
           /\ pasoSolicitud' =
                [ pasoSolicitud EXCEPT ![s] = IF r.exito THEN "actualizada"
                                              ELSE "respondida" ]
           /\ estadoHttp' =
                [ estadoHttp EXCEPT ![s] = IF ~encontrado THEN 404
                                           ELSE IF ~r.exito THEN 500 ELSE @ ]
    /\ UNCHANGED << almacenado, pedidos,
                    vars, varsCal, varsDia, varsGrupo, varsForm, varsEdit, varsScore, varsClasif, varsLegado, varsRecalculo >>

\* storage.guardar(torneo): the request's document replaces the stored one.
GuardarTorneo(s) ==
    /\ pasoSolicitud[s] = "actualizada"
    /\ almacenado' = torneoLocal[s]
    /\ pasoSolicitud' = [ pasoSolicitud EXCEPT ![s] = "respondida" ]
    /\ estadoHttp' = [ estadoHttp EXCEPT ![s] = 200 ]
    /\ UNCHANGED << pedidos, torneoLocal,
                    vars, varsCal, varsDia, varsGrupo, varsForm, varsEdit, varsScore, varsClasif, varsLegado, varsRecalculo >>

NextSolicitudes ==
    \E s \in Solicitudes :
        \/ CargarTorneo(s)
        \/ ActualizarEnCopia(s)
        \/ GuardarTorneo(s)

SpecSolicitudes == InitSolicitudes /\ [][NextSolicitudes]_varsSolicitudes

\* ----------------------------------------------------------------- claims
\* The winner stored for the match a request names.
GanadorAlmacenado(s) ==
    PartidoEn(almacenado, BuscarPartido(almacenado, pedidos[s].partido)).ganador

\* C32: if two requests that each record a winner for a different bracket
\* match of the same tournament interleave their load, modify and save
\* steps, both winners are in the stored bracket once both requests have
\* completed.
C32_AmbosGanadoresAlmacenados ==
    (/\ \A s \in Solicitudes : estadoHttp[s] = 200
     /\ \A s, t \in Solicitudes : s # t => pedidos[s].partido # pedidos[t].partido)
        => \A s \in Solicitudes : GanadorAlmacenado(s) = pedidos[s].ganador

(***************************************************************************)
(* Part 10: the earlier bracket generator                                  *)
(*   core/fixture_generator.py  FixtureGenerator                           *)
(*   api/routes/parejas.py      generar_fixture, marcar_ganador            *)
(* Entrant j of pool g has the id 3 * (g - 1) + j; match ids are the       *)
(* strings of the source.                                                  *)
(***************************************************************************)
\* _clasificar_parejas: the entrants with a position, pool after pool.
ClasificarParejas(grupos, posicion) ==
    SelectSeq([ i \in 1..(TamanoGrupo * Len(grupos)) |-> i ],
              LAMBDA i : grupos[((i - 1) \div TamanoGrupo) + 1]
                               [((i - 1) % TamanoGrupo) + 1] = posicion)

\* generar_fixture with _generar_fixture_3_grupos, _generar_fixture_4_grupos
\* and _generar_fixture_simple.
GenerarFixtureLegado(grupos) ==
    LET primeros == ClasificarParejas(grupos, 1)
        segundos == ClasificarParejas(grupos, 2)
        \* grupo_asignado of an entrant.
        GrupoAsignadoDe(p) == ((p - 1) \div TamanoGrupo) + 1
        finalVacia == PartidoLegado("final", "final", Nulo, Nulo, 1)
        TresGrupos ==
            IF Len(primeros) < 2 THEN FixtureLegadoVacio
            ELSE [ cuartos |->
                     IF Len(primeros) >= 3 /\ Len(segundos) >= 3
                     THEN << PartidoLegado("cuartos_1", "cuartos",
                                           primeros[3], segundos[1], 1),
                             PartidoLegado("cuartos_2", "cuartos",
                                           segundos[2], segundos[3], 2) >>
                     ELSE << >>,
                   semifinales |->
                     << PartidoLegado("semi_1", "semifinal", primeros[1], Nulo, 1),
                        PartidoLegado("semi_2", "semifinal", primeros[2], Nulo, 2) >>,
                   final |-> finalVacia ]
        CuatroGrupos ==
            IF Len(primeros) < 4 \/ Len(segundos) < 4 THEN FixtureLegadoVacio
            ELSE LET emparejamientos ==
                         << << primeros[1], segundos[2], "cuartos_1" >>,
                            << primeros[2], segundos[3], "cuartos_2" >>,
                            << primeros[3], segundos[4], "cuartos_3" >>,
                            << primeros[4], segundos[1], "cuartos_4" >> >>
                     validos == SelectSeq([ idx \in 1..4 |-> idx ],
                                    LAMBDA idx :
                                        GrupoAsignadoDe(emparejamientos[idx][1])
                                            # GrupoAsignadoDe(emparejamientos[idx][2]))
                 IN  [ cuartos |->
                         [ k \in 1..Len(validos) |->
                             PartidoLegado(emparejamientos[validos[k]][3], "cuartos",
                                           emparejamientos[validos[k]][1],
                                           emparejamientos[validos[k]][2],
                                           validos[k]) ],
                       semifinales |->
                         << PartidoLegado("semi_1", "semifinal", Nulo, Nulo, 1),
                            PartidoLegado("semi_2", "semifinal", Nulo, Nulo, 2) >>,
                       final |-> finalVacia ]
        Simple ==
            [ cuartos |-> << >>,
              semifinales |->
                IF Len(primeros) >= 2 /\ Len(segundos) >= 2
                THEN << PartidoLegado("semi_1", "semifinal",
                                      primeros[1], segundos[2], 1),
                        PartidoLegado("semi_2", "semifinal",
                                      primeros[2], segundos[1], 2) >>
                ELSE << >>,
              final |-> finalVacia ]
    IN  IF Len(grupos) = 0 THEN FixtureLegadoVacio
        ELSE IF Len(grupos) = 3 THEN TresGrupos
        ELSE IF Len(grupos) = 4 THEN CuatroGrupos
        ELSE Simple

\* _propagar_a_semifinal: the Semifinal slot each Quarterfinal id writes,
\* only while that slot is None.
PropagarASemifinal(f, cuartoId, ganador) ==
    LET Poner(semi, slot) ==
            IF Len(f.semifinales) >= semi
            THEN IF slot = 1
                 THEN IF f.semifinales[semi].pareja1 = Nulo
                      THEN [ f EXCEPT !.semifinales[semi].pareja1 = ganador ]
                      ELSE f
                 ELSE IF f.semifinales[semi].pareja2 = Nulo
                      THEN [ f EXCEPT !.semifinales[semi].pareja2 = ganador ]
                      ELSE f
            ELSE f
    IN  CASE cuartoId = "cuartos_1" -> Poner(1, 2)
          [] cuartoId = "cuartos_2" -> Poner(2, 2)
          [] cuartoId = "cuartos_3" -> Poner(2, 1)
          [] cuartoId = "cuartos_4" -> Poner(2, 2)
          [] OTHER -> f

\* _propagar_a_final
PropagarAFinal(f, semiId, ganador) ==
    IF f.final.fase = "ninguna" THEN f
    ELSE IF semiId = "semi_1" THEN [ f EXCEPT !.final.pareja1 = ganador ]
    ELSE IF semiId = "semi_2" THEN [ f EXCEPT !.final.pareja2 = ganador ]
    ELSE f

\* actualizar_fixture_con_ganador: the first match with the id among the
\* Quarterfinals, the Semifinals and the final; the winner is recorded when
\* it is one of the two entrants of the match, and carried to the next
\* round.
ActualizarFixtureConGanador(f, partidoId, ganadorId) ==
    LET enCuartos == { i \in 1..Len(f.cuartos) : f.cuartos[i].id = partidoId }
        enSemis == { i \in 1..Len(f.semifinales) :
                       f.semifinales[i].id = partidoId }
        Menor(S) == CHOOSE i \in S : \A j \in S : i <= j
        EsDelPartido(m) ==
            \/ m.pareja1 # Nulo /\ m.pareja1 = ganadorId
            \/ m.pareja2 # Nulo /\ m.pareja2 = ganadorId
    IN  IF enCuartos # {}
        THEN IF EsDelPartido(f.cuartos[Menor(enCuartos)])
             THEN PropagarASemifinal(
                      [ f EXCEPT !.cuartos[Menor(enCuartos)].ganador = ganadorId ],
                      partidoId, ganadorId)
             ELSE f
        ELSE IF enSemis # {}
        THEN IF EsDelPartido(f.semifinales[Menor(enSemis)])
             THEN PropagarAFinal(
                      [ f EXCEPT !.semifinales[Menor(enSemis)].ganador = ganadorId ],
                      partidoId, ganadorId)
             ELSE f
        ELSE IF f.final.fase # "ninguna" /\ f.final.id = partidoId
        THEN IF EsDelPartido(f.final)
             THEN [ f EXCEPT !.final.ganador = ganadorId ]
             ELSE f
        ELSE f

\* ------------------------------------------------------------ the program
\* The pools of the category have been ranked, or not yet: two to four
\* pools, each with the positions of its three entrants (the first pool in
\* one of two orders) or with none.
InitLegado ==
    LET PosicionesDeGrupo == { << 1, 2, 3 >>, << 0, 0, 0 >> }
    IN  /\ gruposLegado \in
               UNION { { g \in [ 1..n -> PosicionesDeGrupo \cup { << 2, 3, 1 >> } ] :
                           \A i \in 2..n : g[i] \in PosicionesDeGrupo } :
                       n \in 2..4 }
        /\ fixtureLegado = FixtureLegadoVacio
        /\ FixtureInactivo /\ CalInactivo /\ DiaInactivo /\ GrupoInactivo /\ FormInactivo /\ EditInactivo /\ ScoreInactivo /\ ClasifInactivo /\ SolicitudesInactivas /\ RecalculoInactivo

\* POST /generar-fixture/<categoria>
GenerarFixtureCategoria ==
    /\ fixtureLegado' = GenerarFixtureLegado(gruposLegado)
    /\ UNCHANGED << gruposLegado,
                    vars, varsCal, varsDia, varsGrupo, varsForm, varsEdit, varsScore, varsClasif, varsSolicitudes, varsRecalculo >>

\* The ids a request can name: the matches of the source and one no match
\* has.
PartidosLegado ==
    { "cuartos_1", "cuartos_2", "cuartos_3", "cuartos_4", "semi_1", "semi_2",
      "final", "cuartos_5" }

\* The route that marks a winner: the stored bracket is updated and saved.
MarcarGanador(partidoId, ganadorId) ==
    /\ fixtureLegado' =
           ActualizarFixtureConGanador(fixtureLegado, partidoId, ganadorId)
    /\ UNCHANGED << gruposLegado,
                    vars, varsCal, varsDia, varsGrupo, varsForm, varsEdit, varsScore, varsClasif, varsSolicitudes, varsRecalculo >>

NextLegado ==
    \/ GenerarFixtureCategoria
    \/ \E partidoId \in PartidosLegado :
           \E ganadorId \in 1..(TamanoGrupo * Len(gruposLegado)) :
               MarcarGanador(partidoId, ganadorId)

SpecLegado == InitLegado /\ [][NextLegado]_varsLegado

\* ----------------------------------------------------------------- claims
\* The entrants a match of the bracket holds.
ParejasDelPartido(m) == { m.pareja1, m.pareja2 } \ { Nulo }

\* C37: in the bracket built by the 4-pool generator, after the winners of
\* the four Quarterfinals have been recorded (in any order), Semifinal 1
\* holds the winners of Quarterfinals 1 and 2 and Semifinal 2 holds the
\* winners of Quarterfinals 3 and 4.
C37_SemifinalesDeCuatroGrupos ==
    (/\ Len(gruposLegado) = 4
     /\ Len(fixtureLegado.cuartos) = 4
     /\ \A i \in 1..4 : fixtureLegado.cuartos[i].ganador # Nulo)
        => /\ ParejasDelPartido(fixtureLegado.semifinales[1])
                  = { fixtureLegado.cuartos[1].ganador,
                      fixtureLegado.cuartos[2].ganador }
           /\ ParejasDelPartido(fixtureLegado.semifinales[2])
                  = { fixtureLegado.cuartos[3].ganador,
                      fixtureLegado.cuartos[4].ganador }

(***************************************************************************)
(* Part 11: the score of a pool after a manual edit                        *)
(*   api/routes/parejas.py  recalcular_score_grupo                         *)
(* Scores are in half points, as in Part 5.                                *)
(***************************************************************************)
\* Mutant of RecalcularScoreGrupo: a pool of two entrants and no slot is
\* given 0.
RecalcularScoreGrupo_SinParcial(g) ==
    LET n == Len(g.parejas)
        Aporte(i) ==
            IF g.franja_horaria \in g.parejas[i] THEN ScoreExacto
            ELSE IF DiaDeFranja[g.franja_horaria]
                        \in { DiaDeFranja[f] : f \in g.parejas[i] }
                 THEN ScoreMismoDia ELSE 0
        RECURSIVE Suma(_)
        Suma(i) == IF i = 0 THEN 0 ELSE Suma(i - 1) + Aporte(i)
    IN  [ g EXCEPT !.score =
            IF n = 0 THEN 0
            ELSE IF g.franja_horaria = SinFranja
            THEN IF n < 3 THEN 0
                 ELSE CalcularCompatibilidad(
                          << g.parejas[1], g.parejas[2], g.parejas[3] >>,
                          << "Jueves 18:00", "Jueves 20:00", "Viernes 18:00" >>).score
            ELSE Suma(n) ]

\* recalcular_score_grupo: no entrant gives 0; without a slot, one entrant
\* gives 0, two give 2.0 when they share a slot, three give the score of
\* _calcular_compatibilidad; with a slot, each entrant adds 1.0 when it
\* lists the slot and 0.5 when it only lists the slot's day.
RecalcularScoreGrupo(g) ==
    LET n == Len(g.parejas)
        Aporte(i) ==
            IF g.franja_horaria \in g.parejas[i] THEN ScoreExacto
            ELSE IF DiaDeFranja[g.franja_horaria]
                        \in { DiaDeFranja[f] : f \in g.parejas[i] }
                 THEN ScoreMismoDia ELSE 0
        RECURSIVE Suma(_)
        Suma(i) == IF i = 0 THEN 0 ELSE Suma(i - 1) + Aporte(i)
    IN  [ g EXCEPT !.score =
            IF n = 0 THEN 0
            ELSE IF g.franja_horaria = SinFranja
            THEN IF n < 2 THEN 0
                 ELSE IF n < 3
                 THEN (IF g.parejas[1] \cap g.parejas[2] # {}
                       THEN 2 * ScoreExacto ELSE 0)
                 ELSE CalcularCompatibilidad(
                          << g.parejas[1], g.parejas[2], g.parejas[3] >>,
                          << "Jueves 18:00", "Jueves 20:00", "Viernes 18:00" >>).score
            ELSE Suma(n) ]

\* ------------------------------------------------------------ the program
\* A pool has been edited: up to three entrants, each with one of these
\* availabilities; the pool has no slot or one of two; the stored score is
\* the one from before the edit.
InitRecalculo ==
    LET DisponibilidadesEdit ==
            { {}, { "Jueves 18:00" }, { "Jueves 20:00" },
              { "Jueves 18:00", "Jueves 20:00" }, { "Viernes 18:00" } }
        FranjasAsignadas == { SinFranja, "Jueves 18:00", "Viernes 18:00" }
    IN  /\ \E n \in 0..TamanoGrupo :
               \E ps \in [ 1..n -> DisponibilidadesEdit ] :
                   \E f \in FranjasAsignadas :
                       grupoDict = [ parejas |-> ps, franja_horaria |-> f,
                                     score |-> ScorePerfecto ]
        /\ recalculado = FALSE
        /\ FixtureInactivo /\ CalInactivo /\ DiaInactivo /\ GrupoInactivo /\ FormInactivo /\ EditInactivo /\ ScoreInactivo /\ ClasifInactivo /\ SolicitudesInactivas /\ LegadoInactivo

\* recalcular_score_grupo(grupo_dict)
RecalcularScore ==
    /\ ~recalculado
    /\ grupoDict' = RecalcularScoreGrupo(grupoDict)
    /\ recalculado' = TRUE
    /\ UNCHANGED << vars, varsCal, varsDia, varsGrupo, varsForm, varsEdit, varsScore, varsClasif, varsSolicitudes, varsLegado >>

NextRecalculo == RecalcularScore

SpecRecalculo == InitRecalculo /\ [][NextRecalculo]_varsRecalculo

\* ----------------------------------------------------------------- claims
\* The first two entrants of the pool share an exact slot.
CompartenFranja == grupoDict.parejas[1] \cap grupoDict.parejas[2] # {}

\* C39 as stated: when a pool is re-scored after a manual edit, a pool with
\* 0 or 1 entrants scores 0.0, and a pool with 2 entrants scores 2.0 if the
\* two share an exact slot and 0.0 otherwise.
C39_ScoreParcial ==
    recalculado =>
        /\ Len(grupoDict.parejas) <= 1 => grupoDict.score = 0
        /\ Len(grupoDict.parejas) = 2
               => grupoDict.score = IF CompartenFranja THEN 2 * ScoreExacto ELSE 0

\* C39, amended: when a pool with no assigned slot is re-scored, 0 or 1
\* entrants score 0.0 and 2 entrants score 2.0 if they share an exact slot
\* and 0.0 otherwise; a pool with no entrant scores 0.0 whatever its slot.
C39_ScoreParcialSinFranja ==
    recalculado =>
        /\ Len(grupoDict.parejas) = 0 => grupoDict.score = 0
        /\ grupoDict.franja_horaria = SinFranja =>
               /\ Len(grupoDict.parejas) = 1 => grupoDict.score = 0
               /\ Len(grupoDict.parejas) = 2
                      => grupoDict.score =
                             IF CompartenFranja THEN 2 * ScoreExacto ELSE 0

\* A pool of two entrants that share a slot, with no assigned slot, has
\* been re-scored to 2.0.
C39_Witness ==
    /\ recalculado
    /\ grupoDict.franja_horaria = SinFranja
    /\ Len(grupoDict.parejas) = 2
    /\ CompartenFranja
    /\ grupoDict.score = 2 * ScoreExacto
====
